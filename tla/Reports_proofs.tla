--------------------------- MODULE Reports_proofs ---------------------------
(***************************************************************************)
(* Proofs about what is reported of the trades: the analytics and          *)
(* validation reports over the stored documents, the statistics and        *)
(* breakdowns of one backtest, and the Monte Carlo runs over its trades.   *)
(***************************************************************************)
EXTENDS PerformanceReports, TradeStatistics, SumLemmas, SequenceTheorems, TLAPS

-----------------------------------------------------------------------------
(* Reports.  What the analytics and validation reports say of the same books *)
(* agrees, for any signals, trades, runs, days and sizes of the books.       *)

PaperTrades == [sig : DOMAIN SignalTable, n : 1 .. 2, pnl : Int, slip : Nat]
LivePositions == [sig : DOMAIN SignalTable, pnl : Int]
Allocations == [sig : DOMAIN SignalTable, approved : BOOLEAN, capital : Int]

(* The books are finite, every trade and position names a stored signal, and *)
(* two documents of one kind differ in the name they are filed under.        *)
BooksType ==
    books \in [signals : SUBSET DOMAIN SignalTable, paper : SUBSET PaperTrades,
               live : SUBSET LivePositions, runs : SUBSET DOMAIN RunTable,
               allocations : SUBSET Allocations]
BooksFinite ==
    /\ IsFiniteSet(books.signals) /\ IsFiniteSet(books.paper) /\ IsFiniteSet(books.live)
    /\ IsFiniteSet(books.runs) /\ IsFiniteSet(books.allocations)
BooksFiled ==
    /\ \A p \in books.paper : p.sig \in books.signals
    /\ \A p \in books.live : p.sig \in books.signals
    /\ \A p, q \in books.paper : p.sig = q.sig /\ p.n = q.n => p = q
    /\ \A p, q \in books.live : p.sig = q.sig => p = q
BooksInv == BooksType /\ BooksFinite /\ BooksFiled

LEMMA BooksInvInit == ReportInit => BooksInv
BY FS_EmptySet DEF ReportInit, BooksInv, BooksType, BooksFinite, BooksFiled

LEMMA BooksInvStep == BooksInv /\ [ReportNext]_books => BooksInv'
<1> SUFFICES ASSUME BooksInv, [ReportNext]_books PROVE BooksInv'
  OBVIOUS
<1> USE ReportAssumption
<1>1. CASE StoreSignal
  <2>1. PICK g \in DOMAIN SignalTable \ books.signals :
            books' = [books EXCEPT !.signals = @ \union {g}]
    BY <1>1 DEF StoreSignal
  <2>2. IsFiniteSet(books.signals \union {g})
    BY FS_AddElement DEF BooksInv, BooksFinite
  <2>3. /\ books'.signals = books.signals \union {g} /\ books'.paper = books.paper
        /\ books'.live = books.live /\ books'.runs = books.runs
        /\ books'.allocations = books.allocations
    BY <2>1 DEF BooksInv, BooksType
  <2>4. BooksType'
    BY <2>1 DEF BooksInv, BooksType
  <2> QED
    BY <2>2, <2>3, <2>4 DEF BooksInv, BooksFinite, BooksFiled
<1>2. CASE StoreAllocation
  <2>1. PICK g \in books.signals, approved \in BOOLEAN :
            books' = [books EXCEPT !.allocations = @ \union
                        {[sig |-> g, approved |-> approved,
                          capital |-> IF approved THEN SignalTable[g].price ELSE 0]}]
    BY <1>2 DEF StoreAllocation
  <2> DEFINE a == [sig |-> g, approved |-> approved,
                   capital |-> IF approved THEN SignalTable[g].price ELSE 0]
  <2>2. a \in Allocations
    BY <2>1 DEF Allocations, BooksInv, BooksType
  <2>3. books' = [books EXCEPT !.allocations = @ \union {a}]
    BY <2>1
  <2> HIDE DEF a
  <2>4. IsFiniteSet(books.allocations \union {a})
    BY FS_AddElement DEF BooksInv, BooksFinite
  <2>5. /\ books'.allocations = books.allocations \union {a} /\ books'.paper = books.paper
        /\ books'.live = books.live /\ books'.runs = books.runs
        /\ books'.signals = books.signals
    BY <2>3 DEF BooksInv, BooksType
  <2>6. BooksType'
    BY <2>2, <2>3 DEF BooksInv, BooksType
  <2> QED
    BY <2>4, <2>5, <2>6 DEF BooksInv, BooksFinite, BooksFiled
<1>3. CASE StorePaperTrade
  <2>1. PICK g \in books.signals, n \in 1 .. 2, pnl \in ReportPnls, slip \in Slips :
            /\ \A t \in books.paper : <<t.sig, t.n>> # <<g, n>>
            /\ books' = [books EXCEPT !.paper = @ \union
                           {[sig |-> g, n |-> n, pnl |-> pnl, slip |-> slip]}]
    BY <1>3 DEF StorePaperTrade
  <2> DEFINE a == [sig |-> g, n |-> n, pnl |-> pnl, slip |-> slip]
  <2>2. a \in PaperTrades /\ a.sig = g /\ a.n = n
    BY <2>1 DEF PaperTrades, BooksInv, BooksType
  <2>3. books' = [books EXCEPT !.paper = @ \union {a}]
    BY <2>1
  <2> HIDE DEF a
  <2>4. IsFiniteSet(books.paper \union {a})
    BY FS_AddElement DEF BooksInv, BooksFinite
  <2>5. /\ books'.allocations = books.allocations /\ books'.paper = books.paper \union {a}
        /\ books'.live = books.live /\ books'.runs = books.runs
        /\ books'.signals = books.signals
    BY <2>3 DEF BooksInv, BooksType
  <2>6. BooksType'
    BY <2>2, <2>3 DEF BooksInv, BooksType
  <2>7. BooksFiled'
    <3>1. \A p \in books.paper : ~(p.sig = a.sig /\ p.n = a.n)
      BY <2>1, <2>2
    <3> QED
      BY <2>1, <2>2, <2>5, <3>1 DEF BooksInv, BooksFiled
  <2> QED
    BY <2>4, <2>5, <2>6, <2>7 DEF BooksInv, BooksFinite
<1>4. CASE StoreLivePosition
  <2>1. PICK g \in books.signals, pnl \in ReportPnls :
            /\ \A p \in books.live : p.sig # g
            /\ books' = [books EXCEPT !.live = @ \union {[sig |-> g, pnl |-> pnl]}]
    BY <1>4 DEF StoreLivePosition
  <2> DEFINE a == [sig |-> g, pnl |-> pnl]
  <2>2. a \in LivePositions /\ a.sig = g
    BY <2>1 DEF LivePositions, BooksInv, BooksType
  <2>3. books' = [books EXCEPT !.live = @ \union {a}]
    BY <2>1
  <2> HIDE DEF a
  <2>4. IsFiniteSet(books.live \union {a})
    BY FS_AddElement DEF BooksInv, BooksFinite
  <2>5. /\ books'.allocations = books.allocations /\ books'.paper = books.paper
        /\ books'.live = books.live \union {a} /\ books'.runs = books.runs
        /\ books'.signals = books.signals
    BY <2>3 DEF BooksInv, BooksType
  <2>6. BooksType'
    BY <2>2, <2>3 DEF BooksInv, BooksType
  <2>7. BooksFiled'
    BY <2>1, <2>2, <2>5 DEF BooksInv, BooksFiled
  <2> QED
    BY <2>4, <2>5, <2>6, <2>7 DEF BooksInv, BooksFinite
<1>5. CASE StoreBacktestRun
  <2>1. PICK r \in DOMAIN RunTable \ books.runs : books' = [books EXCEPT !.runs = @ \union {r}]
    BY <1>5 DEF StoreBacktestRun
  <2>2. IsFiniteSet(books.runs \union {r})
    BY FS_AddElement DEF BooksInv, BooksFinite
  <2>3. /\ books'.runs = books.runs \union {r} /\ books'.paper = books.paper
        /\ books'.live = books.live /\ books'.signals = books.signals
        /\ books'.allocations = books.allocations
    BY <2>1 DEF BooksInv, BooksType
  <2>4. BooksType'
    BY <2>1 DEF BooksInv, BooksType
  <2> QED
    BY <2>2, <2>3, <2>4 DEF BooksInv, BooksFinite, BooksFiled
<1>6. CASE UNCHANGED books
  BY <1>6 DEF BooksInv, BooksType, BooksFinite, BooksFiled
<1> QED
  BY <1>1, <1>2, <1>3, <1>4, <1>5, <1>6 DEF ReportNext

(* The books stay what the reports expect of them, whatever is stored. *)
THEOREM BooksInvariant == ReportSpec => []BooksInv
BY BooksInvInit, BooksInvStep, PTL DEF ReportSpec

(* Sums of the reports are sums over the documents.                          *)

LEMMA SumValuesIs == \A f : SumValues(f) = SumOf(f, DOMAIN f)
BY DEF SumValues, SumOf

LEMMA SumOverIs ==
    ASSUME NEW S, NEW h
    PROVE  SumValues([x \in S |-> h[x]]) = SumOf([x \in S |-> h[x]], S)
BY SumValuesIs

(* Outside of the set summed over, a function does not matter. *)
LEMMA SumOfPartIs ==
    ASSUME NEW S, IsFiniteSet(S), NEW T \in SUBSET S, NEW f, \A x \in S : f[x] \in Int
    PROVE  SumOf([x \in T |-> f[x]], T) = SumOf(f, T) /\ SumOf(f, T) \in Int
<1>1. IsFiniteSet(T)
  BY FS_Subset
<1> DEFINE g == [x \in T |-> f[x]]
<1>2. \A x \in T : f[x] = g[x] /\ f[x] \in Int
  OBVIOUS
<1> HIDE DEF g
<1>3. SumOf(f, T) = SumOf(g, T)
  BY <1>1, <1>2, SumOfSame
<1>4. SumOf(f, T) \in Int
  BY <1>1, <1>2, SumOfInteger
<1> QED
  BY <1>3, <1>4 DEF g

(* Three sets of documents, each filed under names of its own. *)
Filing(A, B, C, ka, kb, kc, R) ==
    /\ IsFiniteSet(A) /\ IsFiniteSet(B) /\ IsFiniteSet(C)
    /\ \A x, y \in A : ka[x] = ka[y] => x = y
    /\ \A x, y \in B : kb[x] = kb[y] => x = y
    /\ \A x, y \in C : kc[x] = kc[y] => x = y
    /\ \A x \in A, y \in B : ka[x] # kb[y]
    /\ \A x \in A, y \in C : ka[x] # kc[y]
    /\ \A x \in B, y \in C : kb[x] # kc[y]
    /\ R = {ka[x] : x \in A} \union {kb[x] : x \in B} \union {kc[x] : x \in C}

Terms(A, k, f, h) == \A x \in A : h[x] = f[k[x]] /\ h[x] \in Int

LEMMA SumOfThree ==
    ASSUME NEW A, NEW B, NEW C, NEW ka, NEW kb, NEW kc, NEW R,
           Filing(A, B, C, ka, kb, kc, R),
           NEW f, NEW ha, NEW hb, NEW hc,
           Terms(A, ka, f, ha), Terms(B, kb, f, hb), Terms(C, kc, f, hc)
    PROVE  /\ IsFiniteSet(R)
           /\ SumOf(f, R) = SumOf(ha, A) + SumOf(hb, B) + SumOf(hc, C)
<1> DEFINE RA == {ka[x] : x \in A}
           RB == {kb[x] : x \in B}
           RC == {kc[x] : x \in C}
<1>1. IsFiniteSet(RA) /\ IsFiniteSet(RB) /\ IsFiniteSet(RC)
  BY FiniteImage DEF Filing
<1>2. SumOf(f, RA) = SumOf(ha, A)
  BY SumOfImage DEF Filing, Terms
<1>3. SumOf(f, RB) = SumOf(hb, B)
  BY SumOfImage DEF Filing, Terms
<1>4. SumOf(f, RC) = SumOf(hc, C)
  BY SumOfImage, SMTT(30) DEF Filing, Terms
<1>5. /\ RA \cap RB = {} /\ (RA \union RB) \cap RC = {}
      /\ \A z \in RA \union RB \union RC : f[z] \in Int
      /\ R = (RA \union RB) \union RC
  BY DEF Filing, Terms
<1> HIDE DEF RA, RB, RC
<1>6. IsFiniteSet(RA \union RB) /\ IsFiniteSet((RA \union RB) \union RC)
  BY <1>1, FS_Union
<1>7. SumOf(f, RA \union RB) = SumOf(f, RA) + SumOf(f, RB)
  BY <1>1, <1>5, SumOfUnion
<1>8. SumOf(f, (RA \union RB) \union RC) = SumOf(f, RA \union RB) + SumOf(f, RC)
  BY <1>1, <1>5, <1>6, SumOfUnion
<1> QED
  BY <1>2, <1>3, <1>4, <1>5, <1>6, <1>7, <1>8

(* The documents a report of a mode reads. *)
PaperOf(mode, f, t) == IF InMode(mode, "PAPER") THEN list_between(f, t) ELSE {}
BacktestOf(mode, f, t) == IF InMode(mode, "BACKTEST") THEN RunTrades(f, t) ELSE {}
LiveOf(mode, f, t) == IF InMode(mode, "LIVE") THEN get_closed_between(f, t) ELSE {}

LEMMA PaperAndLiveAre ==
    ASSUME BooksInv, NEW mode, NEW f \in Int, NEW t \in Int
    PROVE  /\ PaperOf(mode, f, t) \subseteq books.paper
           /\ LiveOf(mode, f, t) \subseteq books.live
           /\ IsFiniteSet(PaperOf(mode, f, t)) /\ IsFiniteSet(LiveOf(mode, f, t))
           /\ \A p \in PaperOf(mode, f, t) : p.pnl \in Int /\ Signal(p).day \in Int
           /\ \A p \in LiveOf(mode, f, t) : p.pnl \in Int /\ Signal(p).day \in Int
<1>1. /\ PaperOf(mode, f, t) \subseteq books.paper /\ LiveOf(mode, f, t) \subseteq books.live
  BY DEF PaperOf, LiveOf, list_between, get_closed_between
<1>2. IsFiniteSet(PaperOf(mode, f, t)) /\ IsFiniteSet(LiveOf(mode, f, t))
  BY <1>1, FS_Subset DEF BooksInv, BooksFinite
<1>3. /\ \A p \in books.paper : p.pnl \in Int /\ Signal(p).day \in Int
      /\ \A p \in books.live : p.pnl \in Int /\ Signal(p).day \in Int
  BY ReportAssumption DEF BooksInv, BooksType, PaperTrades, LivePositions, Signal
<1> QED
  BY <1>1, <1>2, <1>3

LEMMA RunTradesAre ==
    ASSUME BooksInv, NEW f \in Int, NEW t \in Int
    PROVE  /\ IsFiniteSet(RunTrades(f, t))
           /\ \A b \in RunTrades(f, t) :
                  /\ b = <<b[1], b[2]>>
                  /\ b[1] \in books.runs /\ b[1] \in DOMAIN RunTable
                  /\ b[2] \in DOMAIN RunTable[b[1]].trades
                  /\ BtTrade(b).pnl \in Int /\ BtTrade(b).day \in Int
                  /\ f <= BtTrade(b).day /\ BtTrade(b).day <= t
<1> DEFINE Mine(r) == {j \in DOMAIN RunTable[r].trades :
                          /\ f <= RunTable[r].trades[j].day
                          /\ RunTable[r].trades[j].day <= t}
           Named == [r \in RunsTouching(f, t) |-> {<<r, i>> : i \in Mine(r)}]
<1>1. RunTrades(f, t) = UNION {Named[r] : r \in RunsTouching(f, t)}
  BY DEF RunTrades
<1>2. RunsTouching(f, t) \subseteq books.runs /\ books.runs \subseteq DOMAIN RunTable
      /\ IsFiniteSet(books.runs)
  BY DEF RunsTouching, BooksInv, BooksType, BooksFinite
<1>3. \A b \in RunTrades(f, t) :
          /\ b = <<b[1], b[2]>>
          /\ b[1] \in books.runs /\ b[1] \in DOMAIN RunTable
          /\ b[2] \in DOMAIN RunTable[b[1]].trades
          /\ f <= RunTable[b[1]].trades[b[2]].day /\ RunTable[b[1]].trades[b[2]].day <= t
  BY <1>1, <1>2
<1>4. \A r \in DOMAIN RunTable : \A i \in DOMAIN RunTable[r].trades :
          RunTable[r].trades[i].pnl \in Int /\ RunTable[r].trades[i].day \in Int
  BY ReportAssumption
<1>5. \A b \in RunTrades(f, t) :
          /\ BtTrade(b).pnl \in Int /\ BtTrade(b).day \in Int
          /\ f <= BtTrade(b).day /\ BtTrade(b).day <= t
  BY <1>3, <1>4 DEF BtTrade
<1>6. IsFiniteSet(RunTrades(f, t))
  <2>1. ASSUME NEW r \in RunsTouching(f, t) PROVE IsFiniteSet(Named[r])
    <3>1. r \in DOMAIN RunTable
      BY <1>2, <2>1
    <3>2. Len(RunTable[r].trades) \in Nat
          /\ DOMAIN RunTable[r].trades = 1 .. Len(RunTable[r].trades)
      BY <3>1, ReportAssumption
    <3>3. IsFiniteSet(DOMAIN RunTable[r].trades)
      <4> DEFINE l == Len(RunTable[r].trades)
      <4>1. 1 \in Int /\ l \in Int
        BY <3>2
      <4> HIDE DEF l
      <4>2. IsFiniteSet(1 .. l)
        BY <4>1, FS_Interval
      <4> QED
        BY <3>2, <4>2 DEF l
    <3>4. IsFiniteSet(Mine(r))
      <4> DEFINE D == DOMAIN RunTable[r].trades
                 M == Mine(r)
      <4>1. M \in SUBSET D /\ IsFiniteSet(D)
        BY <3>3
      <4> HIDE DEF D, M
      <4>2. IsFiniteSet(M)
        BY <4>1, FS_Subset
      <4> QED
        BY <4>2 DEF M
    <3> DEFINE k == [i \in Mine(r) |-> <<r, i>>]
    <3>5. Named[r] = {k[i] : i \in Mine(r)}
      BY <2>1
    <3> HIDE DEF k, Mine, Named
    <3> QED
      BY <3>4, <3>5, FiniteImage
  <2>2. IsFiniteSet(RunsTouching(f, t))
    BY <1>2, FS_Subset
  <2> HIDE DEF Named
  <2>3. IsFiniteSet({Named[r] : r \in RunsTouching(f, t)})
    BY <2>2, FiniteImage
  <2>4. \A T \in {Named[r] : r \in RunsTouching(f, t)} : IsFiniteSet(T)
    BY <2>1
  <2> QED
    BY <1>1, <2>3, <2>4, FS_UNION
<1> HIDE DEF Mine, Named
<1> QED
  BY <1>3, <1>5, <1>6

LEMMA BacktestAre ==
    ASSUME BooksInv, NEW mode, NEW f \in Int, NEW t \in Int
    PROVE  /\ IsFiniteSet(BacktestOf(mode, f, t))
           /\ \A b \in BacktestOf(mode, f, t) : b = <<b[1], b[2]>>
           /\ \A b \in BacktestOf(mode, f, t) :
                  BtTrade(b).pnl \in Int /\ BtTrade(b).day \in Int
<1>1. BacktestOf(mode, f, t) \subseteq RunTrades(f, t)
  BY DEF BacktestOf
<1>2. IsFiniteSet(RunTrades(f, t))
  BY RunTradesAre
<1>3. \A b \in RunTrades(f, t) : b = <<b[1], b[2]>>
  BY RunTradesAre
<1>4. \A b \in RunTrades(f, t) : BtTrade(b).pnl \in Int /\ BtTrade(b).day \in Int
  BY RunTradesAre
<1>5. IsFiniteSet(BacktestOf(mode, f, t))
  BY <1>1, <1>2, FS_Subset
<1> QED
  BY <1>1, <1>3, <1>4, <1>5

(* What a row counts for in a column of a report. *)
Fields == {"net", "trades", "wins"}
Weight(field, pnl) ==
    IF field = "net" THEN pnl ELSE IF field = "trades" THEN 1 ELSE IF pnl > 0 THEN 1 ELSE 0
Weigh(field, R) == SumOf([r \in R |-> Weight(field, r.pnl)], R)

PaperSum(field, mode, f, t) ==
    SumOf([p \in PaperOf(mode, f, t) |-> Weight(field, p.pnl)], PaperOf(mode, f, t))
BacktestSum(field, mode, f, t) ==
    SumOf([b \in BacktestOf(mode, f, t) |-> Weight(field, BtTrade(b).pnl)],
          BacktestOf(mode, f, t))
LiveSum(field, mode, f, t) ==
    SumOf([p \in LiveOf(mode, f, t) |-> Weight(field, p.pnl)], LiveOf(mode, f, t))
DocumentSum(field, mode, f, t) ==
    PaperSum(field, mode, f, t) + BacktestSum(field, mode, f, t) + LiveSum(field, mode, f, t)

LEMMA WeightIsInteger == \A field : \A z \in Int : Weight(field, z) \in Int
BY DEF Weight

LEMMA DocumentSumType ==
    ASSUME BooksInv, NEW mode, NEW f \in Int, NEW t \in Int, NEW field
    PROVE  /\ PaperSum(field, mode, f, t) \in Int /\ BacktestSum(field, mode, f, t) \in Int
           /\ LiveSum(field, mode, f, t) \in Int
<1> DEFINE P == PaperOf(mode, f, t)
           B == BacktestOf(mode, f, t)
           L == LiveOf(mode, f, t)
           hp == [p \in P |-> Weight(field, p.pnl)]
           hb == [b \in B |-> Weight(field, BtTrade(b).pnl)]
           hl == [p \in L |-> Weight(field, p.pnl)]
<1>1. /\ \A p \in P : hp[p] \in Int
      /\ \A b \in B : hb[b] \in Int
      /\ \A p \in L : hl[p] \in Int
      /\ IsFiniteSet(P) /\ IsFiniteSet(B) /\ IsFiniteSet(L)
  BY PaperAndLiveAre, BacktestAre, WeightIsInteger
<1>2. PaperSum(field, mode, f, t) = SumOf(hp, P)
      /\ BacktestSum(field, mode, f, t) = SumOf(hb, B)
      /\ LiveSum(field, mode, f, t) = SumOf(hl, L)
  BY DEF PaperSum, BacktestSum, LiveSum
<1> HIDE DEF P, B, L, hp, hb, hl
<1> QED
  BY <1>1, <1>2, SumOfInteger

(* Rows filed under the documents they are made of: any report that has one  *)
(* row for each document with its profit has the sums of the documents.      *)
FiledRows(mode, f, t, ka, kb, kc, R) ==
    /\ \A p \in PaperOf(mode, f, t) :
           ka[p].id = <<"paper", p.sig, p.n>> /\ ka[p].pnl = p.pnl
    /\ \A b \in BacktestOf(mode, f, t) :
           kb[b].id = <<"bt", b[1], b[2]>> /\ kb[b].pnl = BtTrade(b).pnl
    /\ \A p \in LiveOf(mode, f, t) :
           kc[p].id = <<"live", p.sig, 1>> /\ kc[p].pnl = p.pnl
    /\ R = {ka[p] : p \in PaperOf(mode, f, t)} \union {kb[b] : b \in BacktestOf(mode, f, t)}
             \union {kc[p] : p \in LiveOf(mode, f, t)}

LEMMA FiledRowsSum ==
    ASSUME BooksInv, NEW mode, NEW f \in Int, NEW t \in Int, NEW R, NEW ka, NEW kb, NEW kc,
           FiledRows(mode, f, t, ka, kb, kc, R)
    PROVE  /\ IsFiniteSet(R)
           /\ \A r \in R : r.pnl \in Int
           /\ \A field : Weigh(field, R) = DocumentSum(field, mode, f, t)
<1> DEFINE P == PaperOf(mode, f, t)
           B == BacktestOf(mode, f, t)
           L == LiveOf(mode, f, t)
<1>1. /\ IsFiniteSet(P) /\ IsFiniteSet(B) /\ IsFiniteSet(L)
      /\ P \subseteq books.paper /\ L \subseteq books.live
      /\ \A p \in P : p.pnl \in Int
      /\ \A b \in B : BtTrade(b).pnl \in Int /\ b = <<b[1], b[2]>>
      /\ \A p \in L : p.pnl \in Int
  BY PaperAndLiveAre, BacktestAre
<1>2. \A x, y \in P : ka[x] = ka[y] => x = y
  <2>1. \A x, y \in P : ka[x] = ka[y] => x.sig = y.sig /\ x.n = y.n
    BY DEF FiledRows
  <2> QED
    BY <1>1, <2>1 DEF BooksInv, BooksFiled
<1>3. \A x, y \in B : kb[x] = kb[y] => x = y
  <2>1. \A x, y \in B : kb[x] = kb[y] => x[1] = y[1] /\ x[2] = y[2]
    BY DEF FiledRows
  <2>2. \A x \in B : x = <<x[1], x[2]>>
    BY <1>1
  <2> QED
    BY <2>1, <2>2
<1>4. \A x, y \in L : kc[x] = kc[y] => x = y
  <2>1. \A x, y \in L : kc[x] = kc[y] => x.sig = y.sig
    BY DEF FiledRows
  <2> QED
    BY <1>1, <2>1 DEF BooksInv, BooksFiled
<1>5. /\ \A x \in P, y \in B : ka[x] # kb[y]
      /\ \A x \in P, y \in L : ka[x] # kc[y]
      /\ \A x \in B, y \in L : kb[x] # kc[y]
  BY DEF FiledRows
<1>6. \A r \in R : r.pnl \in Int
  BY <1>1 DEF FiledRows
<1>7. ASSUME NEW field
      PROVE  IsFiniteSet(R) /\ Weigh(field, R) = DocumentSum(field, mode, f, t)
  <2> DEFINE w == [r \in R |-> Weight(field, r.pnl)]
             hp == [p \in P |-> Weight(field, p.pnl)]
             hb == [b \in B |-> Weight(field, BtTrade(b).pnl)]
             hl == [p \in L |-> Weight(field, p.pnl)]
  <2>1. Terms(P, ka, w, hp) /\ Terms(B, kb, w, hb) /\ Terms(L, kc, w, hl)
    <3>1. /\ \A p \in P : ka[p] \in R /\ ka[p].pnl = p.pnl
          /\ \A b \in B : kb[b] \in R /\ kb[b].pnl = BtTrade(b).pnl
          /\ \A p \in L : kc[p] \in R /\ kc[p].pnl = p.pnl
      BY DEF FiledRows
    <3> QED
      BY <1>1, <3>1, WeightIsInteger DEF Terms
  <2>2. Weigh(field, R) = SumOf(w, R)
        /\ DocumentSum(field, mode, f, t) = SumOf(hp, P) + SumOf(hb, B) + SumOf(hl, L)
    BY DEF Weigh, DocumentSum, PaperSum, BacktestSum, LiveSum
  <2>3. Filing(P, B, L, ka, kb, kc, R)
    BY <1>1, <1>2, <1>3, <1>4, <1>5 DEF Filing, FiledRows
  <2> HIDE DEF w, hp, hb, hl, P, B, L
  <2>4. IsFiniteSet(R) /\ SumOf(w, R) = SumOf(hp, P) + SumOf(hb, B) + SumOf(hl, L)
    BY <2>1, <2>3, SumOfThree
  <2> QED
    BY <2>2, <2>4
<1> QED
  BY <1>6, <1>7

PaperRow(p) == [id |-> <<"paper", p.sig, p.n>>, strat |-> Signal(p).strat,
                day |-> Signal(p).day, pnl |-> p.pnl,
                gross |-> p.pnl + 2 * BrokeragePerSide]
BacktestRow(b) == [id |-> <<"bt", b[1], b[2]>>, strat |-> RunTable[b[1]].strat,
                   day |-> BtTrade(b).day, pnl |-> BtTrade(b).pnl, gross |-> BtTrade(b).pnl]
LiveRow(p) == [id |-> <<"live", p.sig, 1>>, strat |-> "live", day |-> Signal(p).day,
               pnl |-> p.pnl, gross |-> p.pnl]

LEMMA StrategyRowsAre ==
    ASSUME NEW mode, NEW f, NEW t
    PROVE  strategy_rows(mode, f, t) =
               {PaperRow(p) : p \in PaperOf(mode, f, t)}
                 \union {BacktestRow(b) : b \in BacktestOf(mode, f, t)}
                 \union {LiveRow(p) : p \in LiveOf(mode, f, t)}
BY DEF strategy_rows, PaperOf, BacktestOf, LiveOf, PaperRow, BacktestRow, LiveRow

LEMMA StrategyRowsSum ==
    ASSUME BooksInv, NEW mode, NEW f \in Int, NEW t \in Int
    PROVE  /\ IsFiniteSet(strategy_rows(mode, f, t))
           /\ \A r \in strategy_rows(mode, f, t) : r.pnl \in Int /\ r.day \in Int
           /\ \A field :
                  Weigh(field, strategy_rows(mode, f, t)) = DocumentSum(field, mode, f, t)
<1> DEFINE R == strategy_rows(mode, f, t)
           ka == [p \in PaperOf(mode, f, t) |-> PaperRow(p)]
           kb == [b \in BacktestOf(mode, f, t) |-> BacktestRow(b)]
           kc == [p \in LiveOf(mode, f, t) |-> LiveRow(p)]
<1>1. /\ \A p \in PaperOf(mode, f, t) :
             ka[p].id = <<"paper", p.sig, p.n>> /\ ka[p].pnl = p.pnl /\ ka[p].day = Signal(p).day
      /\ \A b \in BacktestOf(mode, f, t) :
             kb[b].id = <<"bt", b[1], b[2]>> /\ kb[b].pnl = BtTrade(b).pnl
               /\ kb[b].day = BtTrade(b).day
      /\ \A p \in LiveOf(mode, f, t) :
             kc[p].id = <<"live", p.sig, 1>> /\ kc[p].pnl = p.pnl /\ kc[p].day = Signal(p).day
  BY DEF PaperRow, BacktestRow, LiveRow
<1>2. R = {ka[p] : p \in PaperOf(mode, f, t)} \union {kb[b] : b \in BacktestOf(mode, f, t)}
               \union {kc[p] : p \in LiveOf(mode, f, t)}
  BY StrategyRowsAre
<1> HIDE DEF R, ka, kb, kc
<1>3. \A r \in R : r.day \in Int
  <2>1. /\ \A p \in PaperOf(mode, f, t) : Signal(p).day \in Int
        /\ \A b \in BacktestOf(mode, f, t) : BtTrade(b).day \in Int
        /\ \A p \in LiveOf(mode, f, t) : Signal(p).day \in Int
    BY PaperAndLiveAre, BacktestAre
  <2> QED
    BY <1>1, <1>2, <2>1
<1>9. FiledRows(mode, f, t, ka, kb, kc, R)
  BY <1>1, <1>2 DEF FiledRows
<1>4. /\ IsFiniteSet(R)
      /\ \A r \in R : r.pnl \in Int
      /\ \A field : Weigh(field, R) = DocumentSum(field, mode, f, t)
  BY <1>9, FiledRowsSum
<1> QED
  BY <1>3, <1>4 DEF R

StockPaperRow(p) == [id |-> <<"paper", p.sig, p.n>>, sym |-> Signal(p).sym,
                     strat |-> Signal(p).strat, pnl |-> p.pnl]
StockBacktestRow(b) == [id |-> <<"bt", b[1], b[2]>>, sym |-> BtTrade(b).sym,
                        strat |-> RunTable[b[1]].strat, pnl |-> BtTrade(b).pnl]
StockLiveRow(p) == [id |-> <<"live", p.sig, 1>>, sym |-> Signal(p).sym, strat |-> "live",
                    pnl |-> p.pnl]

LEMMA StockRowsAre ==
    ASSUME NEW mode, NEW f, NEW t
    PROVE  stock_rows(mode, f, t) =
               {StockPaperRow(p) : p \in PaperOf(mode, f, t)}
                 \union {StockBacktestRow(b) : b \in BacktestOf(mode, f, t)}
                 \union {StockLiveRow(p) : p \in LiveOf(mode, f, t)}
BY DEF stock_rows, PaperOf, BacktestOf, LiveOf, StockPaperRow, StockBacktestRow, StockLiveRow

LEMMA StockRowsSum ==
    ASSUME BooksInv, NEW mode, NEW f \in Int, NEW t \in Int
    PROVE  /\ IsFiniteSet(stock_rows(mode, f, t))
           /\ \A r \in stock_rows(mode, f, t) : r.pnl \in Int
           /\ \A field :
                  Weigh(field, stock_rows(mode, f, t)) = DocumentSum(field, mode, f, t)
<1> DEFINE R == stock_rows(mode, f, t)
           ka == [p \in PaperOf(mode, f, t) |-> StockPaperRow(p)]
           kb == [b \in BacktestOf(mode, f, t) |-> StockBacktestRow(b)]
           kc == [p \in LiveOf(mode, f, t) |-> StockLiveRow(p)]
<1>1. /\ \A p \in PaperOf(mode, f, t) :
             ka[p].id = <<"paper", p.sig, p.n>> /\ ka[p].pnl = p.pnl
      /\ \A b \in BacktestOf(mode, f, t) :
             kb[b].id = <<"bt", b[1], b[2]>> /\ kb[b].pnl = BtTrade(b).pnl
      /\ \A p \in LiveOf(mode, f, t) :
             kc[p].id = <<"live", p.sig, 1>> /\ kc[p].pnl = p.pnl
  BY DEF StockPaperRow, StockBacktestRow, StockLiveRow
<1>2. R = {ka[p] : p \in PaperOf(mode, f, t)} \union {kb[b] : b \in BacktestOf(mode, f, t)}
               \union {kc[p] : p \in LiveOf(mode, f, t)}
  BY StockRowsAre
<1> HIDE DEF R, ka, kb, kc
<1>9. FiledRows(mode, f, t, ka, kb, kc, R)
  BY <1>1, <1>2 DEF FiledRows
<1>3. /\ IsFiniteSet(R)
      /\ \A r \in R : r.pnl \in Int
      /\ \A field : Weigh(field, R) = DocumentSum(field, mode, f, t)
  BY <1>9, FiledRowsSum
<1> QED
  BY <1>3 DEF R

(* Columns: a report's entry for a key has the sums of the rows with the key,*)
(* so the column adds up to the sum of all rows.                             *)
Rows(R) == IsFiniteSet(R) /\ \A r \in R : r.pnl \in Int

LEMMA RowsPart ==
    ASSUME NEW R, Rows(R), NEW T \in SUBSET R
    PROVE  Rows(T)
BY FS_Subset DEF Rows

LEMMA WeighPart ==
    ASSUME NEW R, Rows(R), NEW T \in SUBSET R, NEW field
    PROVE  /\ Weigh(field, T) = SumOf([r \in R |-> Weight(field, r.pnl)], T)
           /\ Weigh(field, T) \in Int
<1> DEFINE w == [r \in R |-> Weight(field, r.pnl)]
<1>1. IsFiniteSet(R) /\ \A r \in R : w[r] \in Int
  BY WeightIsInteger DEF Rows
<1>2. [r \in T |-> Weight(field, r.pnl)] = [r \in T |-> w[r]]
  OBVIOUS
<1> HIDE DEF w
<1>3. SumOf([r \in T |-> w[r]], T) = SumOf(w, T) /\ SumOf(w, T) \in Int
  BY <1>1, SumOfPartIs
<1> QED
  BY <1>2, <1>3 DEF Weigh, w

LEMMA ColumnsAre ==
    ASSUME NEW R, Rows(R)
    PROVE  /\ SumValues([r \in R |-> r.pnl]) = Weigh("net", R)
           /\ Cardinality(R) = Weigh("trades", R)
           /\ Cardinality({r \in R : r.pnl > 0}) = Weigh("wins", R)
           /\ Cardinality(R) \in Nat /\ Cardinality({r \in R : r.pnl > 0}) \in Nat
<1>1. SumValues([r \in R |-> r.pnl]) = Weigh("net", R)
  <2>1. [r \in R |-> r.pnl] = [r \in R |-> Weight("net", r.pnl)]
    BY DEF Weight
  <2> QED
    BY <2>1, SumValuesIs DEF Weigh
<1>2. Cardinality(R) = Weigh("trades", R)
  <2> DEFINE w == [r \in R |-> Weight("trades", r.pnl)]
  <2>1. \A r \in R : w[r] = IF r \in R THEN 1 ELSE 0
    BY DEF Weight
  <2> HIDE DEF w
  <2>2. SumOf(w, R) = Cardinality(R)
    BY <2>1, SumOfOnes DEF Rows
  <2> QED
    BY <2>2 DEF Weigh, w
<1>3. Cardinality({r \in R : r.pnl > 0}) = Weigh("wins", R)
  <2> DEFINE w == [r \in R |-> Weight("wins", r.pnl)]
             W == {r \in R : r.pnl > 0}
  <2>1. \A r \in R : w[r] = IF r \in W THEN 1 ELSE 0
    BY DEF Weight
  <2>2. W \in SUBSET R
    OBVIOUS
  <2> HIDE DEF w, W
  <2>3. SumOf(w, R) = Cardinality(W)
    BY <2>1, <2>2, SumOfOnes DEF Rows
  <2> QED
    BY <2>3 DEF Weigh, w, W
<1>4. IsFiniteSet({r \in R : r.pnl > 0})
  BY FS_Subset DEF Rows
<1> QED
  BY <1>1, <1>2, <1>3, <1>4, FS_CardinalityType DEF Rows

Keyed(report, field, key, R) ==
    /\ DOMAIN report = {key[r] : r \in R}
    /\ \A k \in DOMAIN report : report[k][field] = Weigh(field, {r \in R : key[r] = k})

LEMMA ColumnSum ==
    ASSUME NEW R, Rows(R), NEW key, NEW report, NEW field, Keyed(report, field, key, R)
    PROVE  SumField(report, field) = Weigh(field, R)
<1> DEFINE w == [r \in R |-> Weight(field, r.pnl)]
           h == [k \in DOMAIN report |-> report[k][field]]
<1>1. IsFiniteSet(R) /\ \A r \in R : w[r] \in Int
  BY WeightIsInteger DEF Rows
<1>2. \A T \in SUBSET R : Weigh(field, T) = SumOf(w, T)
  BY WeighPart
<1>3. \A k \in {key[r] : r \in R} : h[k] = SumOf(w, {r \in R : key[r] = k})
  BY <1>2 DEF Keyed
<1>4. SumField(report, field) = SumOf(h, {key[r] : r \in R})
  BY SumValuesIs DEF SumField, Keyed
<1>5. Weigh(field, R) = SumOf(w, R)
  BY DEF Weigh
<1> HIDE DEF w, h
<1>6. Grouped(h, w, key, R)
  BY <1>3 DEF Grouped
<1>7. SumOf(h, {key[r] : r \in R}) = SumOf(w, R)
  BY <1>1, <1>6, SumOfGroups
<1> QED
  BY <1>4, <1>5, <1>7

(* The strategies of a report and their figures. *)
OfStrategy(mode, f, t, s) == {r \in strategy_rows(mode, f, t) : r.strat = s}

LEMMA StrategyReport ==
    ASSUME BooksInv, NEW mode, NEW f \in Int, NEW t \in Int
    PROVE  LET perf == strategy_compute(mode, f, t)
           IN  /\ DOMAIN perf = {r.strat : r \in strategy_rows(mode, f, t)}
               /\ \A s \in DOMAIN perf : /\ perf[s].net = Weigh("net", OfStrategy(mode, f, t, s))
                                         /\ perf[s].net \in Int /\ perf[s].win_rate \in Int
               /\ SumField(perf, "net") = DocumentSum("net", mode, f, t)
               /\ SumField(perf, "trades") = DocumentSum("trades", mode, f, t)
               /\ SumField(perf, "wins") = DocumentSum("wins", mode, f, t)
<1> DEFINE perf == strategy_compute(mode, f, t)
           R == strategy_rows(mode, f, t)
           Of(s) == {r \in R : r.strat = s}
           key == [r \in R |-> r.strat]
<1>1. perf = [s \in {r.strat : r \in R} |-> build_performance(Of(s))]
  BY DEF strategy_compute
<1>2. Rows(R) /\ \A field : Weigh(field, R) = DocumentSum(field, mode, f, t)
  BY StrategyRowsSum DEF Rows
<1> HIDE DEF perf, R
<1>3. ASSUME NEW s \in DOMAIN perf
      PROVE  /\ perf[s].net = Weigh("net", Of(s)) /\ perf[s].trades = Weigh("trades", Of(s))
             /\ perf[s].wins = Weigh("wins", Of(s))
             /\ perf[s].net \in Int /\ perf[s].win_rate \in Int
  <2>1. Rows(Of(s))
    BY <1>2, RowsPart
  <2>2. perf[s] = build_performance(Of(s)) /\ Of(s) # {}
    BY <1>1
  <2> DEFINE n == Cardinality(Of(s))
             k == Cardinality({r \in Of(s) : r.pnl > 0})
  <2>3. /\ SumValues([r \in Of(s) |-> r.pnl]) = Weigh("net", Of(s))
        /\ n = Weigh("trades", Of(s)) /\ k = Weigh("wins", Of(s))
        /\ n \in Nat /\ k \in Nat
    BY <2>1, ColumnsAre
  <2>4. n # 0
    BY <2>1, <2>2, FS_EmptySet DEF Rows
  <2>5. /\ perf[s].net = SumValues([r \in Of(s) |-> r.pnl])
        /\ perf[s].trades = n /\ perf[s].wins = k
        /\ perf[s].win_rate = Rounded(1000000 * k, n)
    BY <2>2 DEF build_performance
  <2>6. Weigh("net", Of(s)) \in Int
    BY <1>2, WeighPart
  <2> HIDE DEF n, k
  <2>7. Rounded(1000000 * k, n) \in Int
    BY <2>3, <2>4 DEF Rounded
  <2> QED
    BY <2>3, <2>5, <2>6, <2>7
<1>4. /\ DOMAIN perf = {key[r] : r \in R}
      /\ \A s : Of(s) = {r \in R : key[r] = s}
  BY <1>1
<1> HIDE DEF key, Of
<1>5. /\ Keyed(perf, "net", key, R) /\ Keyed(perf, "trades", key, R)
      /\ Keyed(perf, "wins", key, R)
  BY <1>3, <1>4 DEF Keyed
<1>6. /\ SumField(perf, "net") = DocumentSum("net", mode, f, t)
      /\ SumField(perf, "trades") = DocumentSum("trades", mode, f, t)
      /\ SumField(perf, "wins") = DocumentSum("wins", mode, f, t)
  BY <1>2, <1>5, ColumnSum
<1>7. DOMAIN perf = {r.strat : r \in R}
  BY <1>1
<1>8. \A s : Of(s) = OfStrategy(mode, f, t, s)
  BY DEF Of, R, OfStrategy
<1> QED
  BY <1>3, <1>6, <1>7, <1>8 DEF perf, R

(* The stocks of a report and their figures. *)
LEMMA StockReport ==
    ASSUME BooksInv, NEW mode, NEW f \in Int, NEW t \in Int
    PROVE  LET stocks == stock_compute(mode, f, t)
           IN  /\ SumField(stocks, "net") = DocumentSum("net", mode, f, t)
               /\ SumField(stocks, "trades") = DocumentSum("trades", mode, f, t)
               /\ SumField(stocks, "wins") = DocumentSum("wins", mode, f, t)
               /\ \A y \in DOMAIN stocks :
                      stocks[y].net = SumValues(stocks[y].by_strategy)
<1> DEFINE stocks == stock_compute(mode, f, t)
           R == stock_rows(mode, f, t)
           Of(y) == {r \in R : r.sym = y}
           ByStrategy(y) == [s \in {r.strat : r \in Of(y)} |->
                                SumValues([r \in {q \in Of(y) : q.strat = s} |-> r.pnl])]
           key == [r \in R |-> r.sym]
<1>1. stocks = [y \in {r.sym : r \in R} |->
                   [trades |-> Cardinality(Of(y)),
                    wins |-> Cardinality({r \in Of(y) : r.pnl > 0}),
                    net |-> SumValues([r \in Of(y) |-> r.pnl]),
                    by_strategy |-> ByStrategy(y)]]
  BY DEF stock_compute
<1>2. Rows(R) /\ \A field : Weigh(field, R) = DocumentSum(field, mode, f, t)
  BY StockRowsSum DEF Rows
<1>3. \A y : Rows(Of(y))
  <2> HIDE DEF R
  <2> QED
    BY <1>2, RowsPart
<1> HIDE DEF stocks, R, ByStrategy
<1>4. ASSUME NEW y \in DOMAIN stocks
      PROVE  /\ stocks[y].net = Weigh("net", Of(y)) /\ stocks[y].trades = Weigh("trades", Of(y))
             /\ stocks[y].wins = Weigh("wins", Of(y))
             /\ stocks[y].by_strategy = ByStrategy(y)
  <2>1. /\ SumValues([r \in Of(y) |-> r.pnl]) = Weigh("net", Of(y))
        /\ Cardinality(Of(y)) = Weigh("trades", Of(y))
        /\ Cardinality({r \in Of(y) : r.pnl > 0}) = Weigh("wins", Of(y))
    BY <1>3, ColumnsAre
  <2>2. /\ stocks[y].net = SumValues([r \in Of(y) |-> r.pnl])
        /\ stocks[y].trades = Cardinality(Of(y))
        /\ stocks[y].wins = Cardinality({r \in Of(y) : r.pnl > 0})
        /\ stocks[y].by_strategy = ByStrategy(y)
    BY <1>1
  <2> QED
    BY <2>1, <2>2
<1>5. /\ DOMAIN stocks = {key[r] : r \in R}
      /\ \A y : Of(y) = {r \in R : key[r] = y}
  BY <1>1
<1>6. ASSUME NEW y PROVE SumValues(ByStrategy(y)) = Weigh("net", Of(y))
  <2> DEFINE T == Of(y)
             skey == [r \in T |-> r.strat]
             w == [r \in T |-> Weight("net", r.pnl)]
             h == ByStrategy(y)
  <2>1. Rows(T)
    BY <1>3
  <2> HIDE DEF T
  <2>2. \A s : SumValues([r \in {q \in T : q.strat = s} |-> r.pnl]) = SumOf(w, {q \in T : q.strat = s})
    <3>1. SUFFICES ASSUME NEW s
                   PROVE  SumValues([r \in {q \in T : q.strat = s} |-> r.pnl])
                            = SumOf(w, {q \in T : q.strat = s})
      OBVIOUS
    <3> DEFINE U == {q \in T : q.strat = s}
    <3>2. U \in SUBSET T
      OBVIOUS
    <3> HIDE DEF U
    <3>3. Rows(U)
      BY <2>1, <3>2, RowsPart
    <3>4. SumValues([r \in U |-> r.pnl]) = Weigh("net", U)
      BY <3>3, ColumnsAre
    <3>5. Weigh("net", U) = SumOf(w, U)
      BY <2>1, <3>2, WeighPart
    <3> QED
      BY <3>4, <3>5 DEF U
  <2>3. /\ DOMAIN h = {skey[r] : r \in T}
        /\ \A s \in {skey[r] : r \in T} : h[s] = SumOf(w, {q \in T : skey[q] = s})
    <3>1. h = [s \in {r.strat : r \in T} |-> SumValues([r \in {q \in T : q.strat = s} |-> r.pnl])]
      BY DEF ByStrategy, T
    <3>2. /\ {r.strat : r \in T} = {skey[r] : r \in T}
          /\ \A s : {q \in T : q.strat = s} = {q \in T : skey[q] = s}
      OBVIOUS
    <3> HIDE DEF h, skey, w
    <3> QED
      BY <2>2, <3>1, <3>2
  <2>4. IsFiniteSet(T) /\ \A r \in T : w[r] \in Int
    BY <2>1, WeightIsInteger DEF Rows
  <2>5. Weigh("net", T) = SumOf(w, T)
    BY DEF Weigh
  <2> HIDE DEF skey, w, h
  <2>6. SumOf(h, {skey[r] : r \in T}) = SumOf(w, T)
    <3>1. Grouped(h, w, skey, T)
      BY <2>3 DEF Grouped
    <3> QED
      BY <2>4, <3>1, SumOfGroups
  <2>7. SumValues(h) = SumOf(h, {skey[r] : r \in T})
    BY <2>3, SumValuesIs
  <2> QED
    BY <2>5, <2>6, <2>7 DEF h, T
<1> HIDE DEF key, Of
<1>7. /\ Keyed(stocks, "net", key, R) /\ Keyed(stocks, "trades", key, R)
      /\ Keyed(stocks, "wins", key, R)
  BY <1>4, <1>5 DEF Keyed
<1>8. /\ SumField(stocks, "net") = DocumentSum("net", mode, f, t)
      /\ SumField(stocks, "trades") = DocumentSum("trades", mode, f, t)
      /\ SumField(stocks, "wins") = DocumentSum("wins", mode, f, t)
  BY <1>2, <1>7, ColumnSum
<1>9. \A y \in DOMAIN stocks : stocks[y].net = SumValues(stocks[y].by_strategy)
  BY <1>4, <1>6
<1> QED
  BY <1>8, <1>9 DEF stocks

(* The portfolio's merged series has, for each day, the profit of that day's *)
(* rows.                                                                     *)
LEMMA PortfolioReport ==
    ASSUME BooksInv, NEW mode, NEW f \in Int, NEW t \in Int
    PROVE  LET portfolio == portfolio_compute(mode, f, t)
           IN  /\ portfolio.total = DocumentSum("net", mode, f, t)
               /\ portfolio.total = SumValues(portfolio.merged_daily)
<1> DEFINE perf == strategy_compute(mode, f, t)
           R == strategy_rows(mode, f, t)
           Of(s) == {r \in R : r.strat = s}
           On(d) == {r \in R : r.day = d}
           skey == [r \in R |-> r.strat]
           dkey == [r \in R |-> r.day]
           w == [r \in R |-> Weight("net", r.pnl)]
           Traded(d) == {q \in DOMAIN perf : d \in DOMAIN perf[q].daily}
           Daily(d) == [s \in Traded(d) |-> perf[s].daily[d]]
           days == UNION {DOMAIN perf[s].daily : s \in DOMAIN perf}
           merged == [d \in days |-> SumValues(Daily(d))]
<1>1. /\ perf = [s \in {r.strat : r \in R} |-> build_performance(Of(s))]
      /\ portfolio_compute(mode, f, t).total = SumField(perf, "net")
      /\ portfolio_compute(mode, f, t).merged_daily = merged
  BY DEF strategy_compute, portfolio_compute
<1>2. Rows(R) /\ SumField(perf, "net") = DocumentSum("net", mode, f, t)
      /\ Weigh("net", R) = DocumentSum("net", mode, f, t)
  <2>1. Rows(R)
    BY StrategyRowsSum DEF Rows
  <2>2. Weigh("net", R) = DocumentSum("net", mode, f, t)
    BY StrategyRowsSum
  <2>3. SumField(perf, "net") = DocumentSum("net", mode, f, t)
    <3> HIDE DEF R
    <3> QED
      BY StrategyReport
  <2> QED
    BY <2>1, <2>2, <2>3
<1>3. IsFiniteSet(R) /\ \A r \in R : w[r] \in Int
  BY <1>2, WeightIsInteger DEF Rows
<1>4. \A T \in SUBSET R : SumValues([r \in T |-> r.pnl]) = SumOf(w, T)
  <2>1. SUFFICES ASSUME NEW T \in SUBSET R
                 PROVE  SumValues([r \in T |-> r.pnl]) = SumOf(w, T)
    OBVIOUS
  <2> HIDE DEF R, w
  <2>2. Rows(T)
    BY <1>2, RowsPart
  <2>3. SumValues([r \in T |-> r.pnl]) = Weigh("net", T)
    BY <2>2, ColumnsAre
  <2>4. Weigh("net", T) = SumOf(w, T)
    BY <1>2, WeighPart DEF w
  <2> QED
    BY <2>3, <2>4
<1> HIDE DEF perf, R, w
<1>5. ASSUME NEW s \in DOMAIN perf
      PROVE  /\ DOMAIN perf[s].daily = {r.day : r \in Of(s)}
             /\ \A d \in DOMAIN perf[s].daily :
                    perf[s].daily[d] = SumOf(w, {q \in On(d) : q.strat = s})
  <2>1. perf[s].daily = [d \in {r.day : r \in Of(s)} |->
                            SumValues([r \in {q \in Of(s) : q.day = d} |-> r.pnl])]
    <3>1. perf[s] = build_performance(Of(s))
      BY <1>1
    <3> HIDE DEF Of
    <3>2. build_performance(Of(s)).daily
            = [d \in {r.day : r \in Of(s)} |->
                  SumValues([r \in {q \in Of(s) : q.day = d} |-> r.pnl])]
      BY DEF build_performance
    <3> QED
      BY <3>1, <3>2
  <2>3. DOMAIN perf[s].daily = {r.day : r \in Of(s)}
    BY <2>1
  <2>4. ASSUME NEW d \in DOMAIN perf[s].daily
        PROVE  perf[s].daily[d] = SumOf(w, {q \in On(d) : q.strat = s})
    <3> DEFINE T == {q \in On(d) : q.strat = s}
    <3>1. T \in SUBSET R /\ {q \in Of(s) : q.day = d} = T
      OBVIOUS
    <3>2. perf[s].daily[d] = SumValues([r \in {q \in Of(s) : q.day = d} |-> r.pnl])
      BY <2>1, <2>3
    <3> HIDE DEF T
    <3>3. SumValues([r \in T |-> r.pnl]) = SumOf(w, T)
      BY <1>4, <3>1
    <3> QED
      BY <3>1, <3>2, <3>3 DEF T
  <2> QED
    BY <2>3, <2>4
<1>6. ASSUME NEW d PROVE SumValues(Daily(d)) = SumOf(w, On(d))
  <2>1. /\ Traded(d) = {skey[r] : r \in On(d)}
        /\ \A s \in Traded(d) : Daily(d)[s] = SumOf(w, {q \in On(d) : q.strat = s})
        /\ \A s : {q \in On(d) : q.strat = s} = {q \in On(d) : skey[q] = s}
        /\ DOMAIN Daily(d) = Traded(d)
    <3>1. DOMAIN perf = {r.strat : r \in R}
      BY <1>1
    <3>2. \A s \in DOMAIN perf : d \in DOMAIN perf[s].daily <=> \E r \in Of(s) : r.day = d
      BY <1>5
    <3>3. Traded(d) = {skey[r] : r \in On(d)}
      BY <3>1, <3>2
    <3>4. \A s \in Traded(d) : Daily(d)[s] = SumOf(w, {q \in On(d) : q.strat = s})
      BY <1>5
    <3> QED
      BY <3>3, <3>4
  <2> DEFINE T == On(d)
             h == Daily(d)
  <2>2. IsFiniteSet(T) /\ \A r \in T : w[r] \in Int
    BY <1>3, FS_Subset
  <2>3. Grouped(h, w, skey, T)
    BY <2>1 DEF Grouped
  <2>4. DOMAIN h = {skey[r] : r \in T}
    BY <2>1
  <2> HIDE DEF h, T, skey
  <2>5. SumOf(h, {skey[r] : r \in T}) = SumOf(w, T)
    BY <2>2, <2>3, SumOfGroups
  <2> QED
    BY <2>4, <2>5, SumValuesIs DEF h, T
<1>7. days = {dkey[r] : r \in R}
  <2>1. \A s \in DOMAIN perf : DOMAIN perf[s].daily = {r.day : r \in Of(s)}
    BY <1>5
  <2>2. DOMAIN perf = {r.strat : r \in R}
    BY <1>1
  <2>3. /\ \A d \in days : \E s \in DOMAIN perf : d \in DOMAIN perf[s].daily
        /\ \A s \in DOMAIN perf : DOMAIN perf[s].daily \subseteq days
    OBVIOUS
  <2>4. \A r \in R : r.strat \in DOMAIN perf /\ r \in Of(r.strat)
    BY <2>2
  <2>5. \A r \in R : dkey[r] = r.day
    OBVIOUS
  <2>6. \A d \in days : \E r \in R : d = r.day
    <3> HIDE DEF days
    <3> QED
      BY <2>1, <2>3
  <2>7. \A r \in R : r.day \in days
    <3> HIDE DEF days
    <3> QED
      BY <2>1, <2>3, <2>4
  <2> QED
    BY <2>5, <2>6, <2>7
<1>8. /\ \A d : On(d) = {r \in R : dkey[r] = d}
      /\ DOMAIN merged = days
      /\ \A d \in days : merged[d] = SumOf(w, On(d))
  BY <1>6
<1> HIDE DEF merged, days, dkey, On
<1>9. Grouped(merged, w, dkey, R)
  BY <1>7, <1>8 DEF Grouped
<1>10. SumOf(merged, {dkey[r] : r \in R}) = SumOf(w, R)
  BY <1>3, <1>9, SumOfGroups
<1>11. SumValues(merged) = Weigh("net", R)
  BY <1>7, <1>8, <1>10, SumValuesIs DEF Weigh, w
<1> QED
  BY <1>1, <1>2, <1>11

(* The capital report sums the documents themselves. *)
LEMMA CapitalReport ==
    ASSUME BooksInv, NEW mode, NEW f \in Int, NEW t \in Int
    PROVE  LET capital == efficiency_compute(mode, f, t)
           IN  /\ capital.net = DocumentSum("net", mode, f, t)
               /\ capital.approved <= capital.signals
               /\ capital.allocated + capital.idle = TotalCapital
<1> DEFINE capital == efficiency_compute(mode, f, t)
           allocations == get_for_date_range(f, t)
           approved == {a \in allocations : a.approved}
           h == [a \in approved |-> a.capital]
<1>1. /\ capital.signals = Cardinality(allocations)
      /\ capital.approved = Cardinality(approved)
      /\ capital.allocated = SumValues(h) /\ capital.idle = TotalCapital - SumValues(h)
  BY DEF efficiency_compute
<1>2. capital.net = SumValues([p \in PaperOf(mode, f, t) |-> p.pnl])
                      + SumValues([b \in BacktestOf(mode, f, t) |-> BtTrade(b).pnl])
                      + SumValues([p \in LiveOf(mode, f, t) |-> p.pnl])
  BY DEF efficiency_compute, PaperOf, BacktestOf, LiveOf
<1>3. IsFiniteSet(allocations) /\ allocations \subseteq Allocations
  <2>1. allocations \in SUBSET books.allocations
    BY DEF get_for_date_range
  <2> HIDE DEF allocations
  <2> QED
    BY <2>1, FS_Subset DEF BooksInv, BooksType, BooksFinite
<1>4. approved \in SUBSET allocations
  OBVIOUS
<1> HIDE DEF capital, allocations
<1>5. IsFiniteSet(approved) /\ Cardinality(approved) <= Cardinality(allocations)
  BY <1>3, <1>4, FS_Subset
<1>6. SumValues(h) \in Int
  <2>1. \A a \in approved : h[a] \in Int
    BY <1>3 DEF Allocations
  <2>2. SumValues(h) = SumOf(h, approved)
    BY SumValuesIs
  <2> HIDE DEF h, approved
  <2> QED
    BY <1>5, <2>1, <2>2, SumOfInteger
<1>7. DocumentSum("net", mode, f, t)
        = SumValues([p \in PaperOf(mode, f, t) |-> p.pnl])
            + SumValues([b \in BacktestOf(mode, f, t) |-> BtTrade(b).pnl])
            + SumValues([p \in LiveOf(mode, f, t) |-> p.pnl])
  <2>1. /\ [p \in PaperOf(mode, f, t) |-> p.pnl]
             = [p \in PaperOf(mode, f, t) |-> Weight("net", p.pnl)]
        /\ [b \in BacktestOf(mode, f, t) |-> BtTrade(b).pnl]
             = [b \in BacktestOf(mode, f, t) |-> Weight("net", BtTrade(b).pnl)]
        /\ [p \in LiveOf(mode, f, t) |-> p.pnl]
             = [p \in LiveOf(mode, f, t) |-> Weight("net", p.pnl)]
    BY DEF Weight
  <2>2. SumValues([p \in PaperOf(mode, f, t) |-> p.pnl]) = PaperSum("net", mode, f, t)
    BY <2>1, SumValuesIs DEF PaperSum
  <2>3. SumValues([b \in BacktestOf(mode, f, t) |-> BtTrade(b).pnl])
          = BacktestSum("net", mode, f, t)
    BY <2>1, SumValuesIs DEF BacktestSum
  <2>4. SumValues([p \in LiveOf(mode, f, t) |-> p.pnl]) = LiveSum("net", mode, f, t)
    BY <2>1, SumValuesIs DEF LiveSum
  <2> QED
    BY <2>2, <2>3, <2>4 DEF DocumentSum
<1>8. TotalCapital \in Int
  BY ReportAssumption
<1>9. capital.allocated + capital.idle = TotalCapital
  BY <1>1, <1>6, <1>8
<1> QED
  BY <1>1, <1>2, <1>5, <1>7, <1>9 DEF capital

(* Modes and periods.  A mode reads its own documents and the combined mode  *)
(* all of them; two adjoining periods share no document.                     *)
LEMMA CombinedReport ==
    ASSUME BooksInv, NEW f \in Int, NEW t \in Int
    PROVE  /\ portfolio_compute("COMBINED", f, t).total
                = portfolio_compute("PAPER", f, t).total
                    + portfolio_compute("BACKTEST", f, t).total
                    + portfolio_compute("LIVE", f, t).total
           /\ portfolio_compute("PAPER", f, t).total = PaperSum("net", "PAPER", f, t)
<1>1. \A mode : portfolio_compute(mode, f, t).total = DocumentSum("net", mode, f, t)
  BY PortfolioReport
<1>2. /\ PaperOf("COMBINED", f, t) = PaperOf("PAPER", f, t)
      /\ BacktestOf("COMBINED", f, t) = BacktestOf("BACKTEST", f, t)
      /\ LiveOf("COMBINED", f, t) = LiveOf("LIVE", f, t)
      /\ PaperOf("BACKTEST", f, t) = {} /\ PaperOf("LIVE", f, t) = {}
      /\ BacktestOf("PAPER", f, t) = {} /\ BacktestOf("LIVE", f, t) = {}
      /\ LiveOf("PAPER", f, t) = {} /\ LiveOf("BACKTEST", f, t) = {}
  BY DEF PaperOf, BacktestOf, LiveOf, InMode
<1>3. /\ PaperSum("net", "COMBINED", f, t) = PaperSum("net", "PAPER", f, t)
      /\ BacktestSum("net", "COMBINED", f, t) = BacktestSum("net", "BACKTEST", f, t)
      /\ LiveSum("net", "COMBINED", f, t) = LiveSum("net", "LIVE", f, t)
  BY <1>2 DEF PaperSum, BacktestSum, LiveSum
<1>4. /\ PaperSum("net", "BACKTEST", f, t) = 0 /\ PaperSum("net", "LIVE", f, t) = 0
      /\ BacktestSum("net", "PAPER", f, t) = 0 /\ BacktestSum("net", "LIVE", f, t) = 0
      /\ LiveSum("net", "PAPER", f, t) = 0 /\ LiveSum("net", "BACKTEST", f, t) = 0
  BY <1>2, SumOfEmpty DEF PaperSum, BacktestSum, LiveSum
<1>5. /\ PaperSum("net", "PAPER", f, t) \in Int
      /\ BacktestSum("net", "BACKTEST", f, t) \in Int
      /\ LiveSum("net", "LIVE", f, t) \in Int
  BY DocumentSumType
<1> QED
  BY <1>1, <1>3, <1>4, <1>5 DEF DocumentSum

LEMMA RunTradesMembers ==
    ASSUME BooksInv, NEW f \in Int, NEW t \in Int, NEW b
    PROVE  b \in RunTrades(f, t) <=>
             /\ b = <<b[1], b[2]>> /\ b[1] \in books.runs
             /\ b[2] \in DOMAIN RunTable[b[1]].trades
             /\ f <= BtTrade(b).day /\ BtTrade(b).day <= t
<1>1. ASSUME b \in RunTrades(f, t)
      PROVE  /\ b = <<b[1], b[2]>> /\ b[1] \in books.runs
             /\ b[2] \in DOMAIN RunTable[b[1]].trades
             /\ f <= BtTrade(b).day /\ BtTrade(b).day <= t
  BY <1>1, RunTradesAre
<1>2. ASSUME b = <<b[1], b[2]>>, b[1] \in books.runs, b[2] \in DOMAIN RunTable[b[1]].trades,
             f <= BtTrade(b).day, BtTrade(b).day <= t
      PROVE  b \in RunTrades(f, t)
  <2> DEFINE r == b[1]
             i == b[2]
  <2>1. r \in DOMAIN RunTable
    BY <1>2 DEF BooksInv, BooksType
  <2>2. /\ RunTable[r].from \in Int /\ RunTable[r].to \in Int
        /\ RunTable[r].trades[i].day \in RunTable[r].from .. RunTable[r].to
    BY <1>2, <2>1, ReportAssumption
  <2>3. f <= RunTable[r].trades[i].day /\ RunTable[r].trades[i].day <= t
    BY <1>2 DEF BtTrade
  <2>4. ~(RunTable[r].to < f \/ RunTable[r].from > t)
    BY <2>2, <2>3
  <2>5. r \in RunsTouching(f, t)
    BY <1>2, <2>4 DEF RunsTouching
  <2> QED
    BY <1>2, <2>3, <2>5 DEF RunTrades
<1> QED
  BY <1>1, <1>2

Adjoin(mode, f, m, t) ==
    /\ strategy_rows(mode, f, t)
          = strategy_rows(mode, f, m) \union strategy_rows(mode, m + 1, t)
    /\ strategy_rows(mode, f, m) \cap strategy_rows(mode, m + 1, t) = {}

LEMMA PeriodsAdjoin ==
    ASSUME BooksInv, NEW f \in Int, NEW t \in Int, NEW m \in Int, f <= m, m < t,
           NEW mode, mode \in {"LIVE", "BACKTEST"}
    PROVE  Adjoin(mode, f, m, t)
<1>1. m \in Int /\ m + 1 \in Int /\ f <= m /\ m < t
  OBVIOUS
<1>2. /\ \A p \in books.live : Signal(p).day \in Int
  BY ReportAssumption DEF BooksInv, BooksType, LivePositions, Signal
<1>3. /\ get_closed_between(f, t) = get_closed_between(f, m) \union get_closed_between(m + 1, t)
  BY <1>1, <1>2 DEF get_closed_between
<1>4. RunTrades(f, t) = RunTrades(f, m) \union RunTrades(m + 1, t)
  <2>1. ASSUME NEW b PROVE b \in RunTrades(f, t) <=> b \in RunTrades(f, m) \/ b \in RunTrades(m + 1, t)
    <3>1. b \in RunTrades(f, t) => BtTrade(b).day \in Int
      BY RunTradesAre
    <3>2. b \in RunTrades(f, m) => BtTrade(b).day \in Int
      BY <1>1, RunTradesAre
    <3>3. b \in RunTrades(m + 1, t) => BtTrade(b).day \in Int
      BY <1>1, RunTradesAre
    <3> DEFINE Named == /\ b = <<b[1], b[2]>> /\ b[1] \in books.runs
                        /\ b[2] \in DOMAIN RunTable[b[1]].trades
    <3>4. b \in RunTrades(f, t)
            <=> Named /\ f <= BtTrade(b).day /\ BtTrade(b).day <= t
      BY RunTradesMembers
    <3>5. b \in RunTrades(f, m)
            <=> Named /\ f <= BtTrade(b).day /\ BtTrade(b).day <= m
      BY <1>1, RunTradesMembers
    <3>6. b \in RunTrades(m + 1, t)
            <=> Named /\ m + 1 <= BtTrade(b).day /\ BtTrade(b).day <= t
      BY <1>1, RunTradesMembers
    <3> HIDE DEF Named
    <3> QED
      BY <1>1, <3>1, <3>2, <3>3, <3>4, <3>5, <3>6
  <2> QED
    BY <2>1
<1>5. /\ PaperOf(mode, f, t) = {} /\ PaperOf(mode, f, m) = {} /\ PaperOf(mode, m + 1, t) = {}
      /\ LiveOf(mode, f, t) = LiveOf(mode, f, m) \union LiveOf(mode, m + 1, t)
      /\ BacktestOf(mode, f, t) = BacktestOf(mode, f, m) \union BacktestOf(mode, m + 1, t)
  BY <1>3, <1>4 DEF PaperOf, LiveOf, BacktestOf, InMode
<1>6. strategy_rows(mode, f, t)
        = strategy_rows(mode, f, m) \union strategy_rows(mode, m + 1, t)
  BY <1>5, StrategyRowsAre
<1>7. /\ \A r \in strategy_rows(mode, f, m) : r.day \in Int /\ r.day <= m
      /\ \A r \in strategy_rows(mode, m + 1, t) : r.day \in Int /\ m + 1 <= r.day
  <2>1. /\ \A p \in LiveOf(mode, f, m) : Signal(p).day \in Int /\ Signal(p).day <= m
        /\ \A p \in LiveOf(mode, m + 1, t) : Signal(p).day \in Int /\ m + 1 <= Signal(p).day
    BY <1>2 DEF LiveOf, get_closed_between
  <2>2. \A b \in RunTrades(f, m) : BtTrade(b).day \in Int /\ BtTrade(b).day <= m
    BY <1>1, RunTradesAre
  <2>3. \A b \in RunTrades(m + 1, t) : BtTrade(b).day \in Int /\ m + 1 <= BtTrade(b).day
    BY <1>1, RunTradesAre
  <2>4. BacktestOf(mode, f, m) \subseteq RunTrades(f, m)
        /\ BacktestOf(mode, m + 1, t) \subseteq RunTrades(m + 1, t)
    BY DEF BacktestOf
  <2>5. /\ \A r \in strategy_rows(mode, f, m) :
               \/ \E b \in BacktestOf(mode, f, m) : r.day = BtTrade(b).day
               \/ \E p \in LiveOf(mode, f, m) : r.day = Signal(p).day
        /\ \A r \in strategy_rows(mode, m + 1, t) :
               \/ \E b \in BacktestOf(mode, m + 1, t) : r.day = BtTrade(b).day
               \/ \E p \in LiveOf(mode, m + 1, t) : r.day = Signal(p).day
    BY <1>5, StrategyRowsAre DEF BacktestRow, LiveRow
  <2> QED
    BY <2>1, <2>2, <2>3, <2>4, <2>5
<1>8. strategy_rows(mode, f, m) \cap strategy_rows(mode, m + 1, t) = {}
  BY <1>1, <1>7
<1> QED
  BY <1>6, <1>8 DEF Adjoin

LEMMA WeighUnion ==
    ASSUME NEW A, NEW B, Rows(A), Rows(B), A \cap B = {}, NEW field
    PROVE  Weigh(field, A \union B) = Weigh(field, A) + Weigh(field, B)
<1> DEFINE R == A \union B
           w == [r \in R |-> Weight(field, r.pnl)]
<1>1. Rows(R)
  BY FS_Union DEF Rows
<1>2. IsFiniteSet(A) /\ IsFiniteSet(B) /\ \A r \in A \union B : w[r] \in Int
  BY WeightIsInteger DEF Rows
<1>3. A \in SUBSET R /\ B \in SUBSET R /\ R \in SUBSET R
  OBVIOUS
<1> HIDE DEF R
<1>4. /\ Weigh(field, A) = SumOf(w, A) /\ Weigh(field, B) = SumOf(w, B)
      /\ Weigh(field, R) = SumOf(w, R)
  BY <1>1, <1>3, WeighPart
<1> HIDE DEF w
<1>5. SumOf(w, A \union B) = SumOf(w, A) + SumOf(w, B)
  BY <1>2, SumOfUnion
<1> QED
  BY <1>4, <1>5 DEF R

LEMMA StrategyNet ==
    ASSUME BooksInv, NEW mode, NEW f \in Int, NEW t \in Int, NEW s
    PROVE  (IF s \in DOMAIN strategy_compute(mode, f, t)
            THEN strategy_compute(mode, f, t)[s].net ELSE 0)
               = Weigh("net", OfStrategy(mode, f, t, s))
<1> DEFINE perf == strategy_compute(mode, f, t)
           R == strategy_rows(mode, f, t)
           Of == OfStrategy(mode, f, t, s)
<1>1. CASE s \in DOMAIN perf
  <2>1. \A x \in DOMAIN perf : perf[x].net = Weigh("net", OfStrategy(mode, f, t, x))
    BY StrategyReport
  <2> HIDE DEF perf, R
  <2>2. perf[s].net = Weigh("net", Of)
    BY <1>1, <2>1
  <2> QED
    BY <1>1, <2>2 DEF perf, R
<1>2. CASE s \notin DOMAIN perf
  <2>1. DOMAIN perf = {r.strat : r \in R}
    BY StrategyReport
  <2> HIDE DEF perf, R
  <2>2. Of = {}
    BY <1>2, <2>1 DEF OfStrategy, R
  <2>3. Weigh("net", {}) = 0
    BY SumOfEmpty DEF Weigh
  <2> QED
    BY <1>2, <2>2, <2>3 DEF perf, R
<1> QED
  BY <1>1, <1>2

LEMMA AdjoiningPeriods ==
    ASSUME BooksInv, NEW f \in Int, NEW t \in Int, NEW m \in f .. t - 1,
           NEW mode \in {"LIVE", "BACKTEST"}, NEW s
    PROVE  LET halves == compare_periods(mode, s, f, m, m + 1, t)
               whole == strategy_compute(mode, f, t)
           IN  halves.a + halves.b = IF s \in DOMAIN whole THEN whole[s].net ELSE 0
<1> DEFINE A == OfStrategy(mode, f, m, s)
           B == OfStrategy(mode, m + 1, t, s)
           C == OfStrategy(mode, f, t, s)
           Net(x, y) == IF s \in DOMAIN strategy_compute(mode, x, y)
                        THEN strategy_compute(mode, x, y)[s].net ELSE 0
<1>1. m \in Int /\ m + 1 \in Int /\ f <= m /\ m < t
  OBVIOUS
<1>2. C = A \union B /\ A \cap B = {}
  <2>1. Adjoin(mode, f, m, t)
    BY <1>1, PeriodsAdjoin
  <2> QED
    BY <2>1 DEF Adjoin, OfStrategy
<1>3. Rows(A) /\ Rows(B)
  <2>1. Rows(strategy_rows(mode, f, m)) /\ Rows(strategy_rows(mode, m + 1, t))
    BY <1>1, StrategyRowsSum DEF Rows
  <2>2. /\ A \in SUBSET strategy_rows(mode, f, m)
        /\ B \in SUBSET strategy_rows(mode, m + 1, t)
    BY DEF OfStrategy
  <2> QED
    BY <2>1, <2>2, RowsPart
<1>4. Net(f, m) = Weigh("net", A)
  BY <1>1, StrategyNet
<1>5. Net(m + 1, t) = Weigh("net", B)
  BY <1>1, StrategyNet
<1>6. Net(f, t) = Weigh("net", C)
  BY StrategyNet
<1>9. Weigh("net", A) + Weigh("net", B) = Net(f, t)
  <2> HIDE DEF A, B, C, Net
  <2> QED
    BY <1>2, <1>3, <1>6, WeighUnion
<1>7. /\ compare_periods(mode, s, f, m, m + 1, t).a = Net(f, m)
      /\ compare_periods(mode, s, f, m, m + 1, t).b = Net(m + 1, t)
  BY DEF compare_periods
<1>8. compare_periods(mode, s, f, m, m + 1, t).a
        + compare_periods(mode, s, f, m, m + 1, t).b = Net(f, t)
  BY <1>4, <1>5, <1>7, <1>9
<1> QED
  BY <1>8

(* The last day of a range is read by no paper report of that range.         *)
LEMMA PaperPeriods ==
    ASSUME BooksInv, NEW f \in Int, NEW t \in Int, NEW m \in f .. t - 1
    PROVE  portfolio_compute("PAPER", f, m).total + portfolio_compute("PAPER", m + 1, t).total
             + SumValues([p \in {q \in books.paper : Signal(q).day = m} |-> p.pnl])
             = portfolio_compute("PAPER", f, t).total
<1> DEFINE w == [p \in books.paper |-> p.pnl]
           A == list_between(f, m)
           B == list_between(m + 1, t)
           C == {q \in books.paper : Signal(q).day = m}
           D == list_between(f, t)
<1>1. m \in Int /\ m + 1 \in Int /\ f <= m /\ m < t
  OBVIOUS
<1>2. IsFiniteSet(books.paper) /\ \A p \in books.paper : w[p] \in Int /\ Signal(p).day \in Int
  BY ReportAssumption DEF BooksInv, BooksType, BooksFinite, PaperTrades, Signal
<1>3. /\ A = {p \in books.paper : f <= Signal(p).day /\ Signal(p).day < m}
      /\ B = {p \in books.paper : m + 1 <= Signal(p).day /\ Signal(p).day < t}
      /\ D = {p \in books.paper : f <= Signal(p).day /\ Signal(p).day < t}
  <2>1. \A x, d \in Int : (2 * x <= 2 * d + 1 <=> x <= d) /\ (2 * d + 1 <= 2 * x <=> d < x)
    OBVIOUS
  <2>2. ASSUME NEW x \in Int, NEW y \in Int
        PROVE  list_between(x, y)
                 = {p \in books.paper : x <= Signal(p).day /\ Signal(p).day < y}
    <3>1. \A p \in books.paper :
              (Midnight(x) <= During(Signal(p).day) /\ During(Signal(p).day) <= Midnight(y))
                  <=> (x <= Signal(p).day /\ Signal(p).day < y)
      BY <1>2, <2>1 DEF Midnight, During
    <3> QED
      BY <3>1 DEF list_between
  <2> QED
    BY <1>1, <2>2
<1> HIDE DEF A, B, D
<1>4. /\ A \cap B = {} /\ (A \union B) \cap C = {} /\ D = (A \union B) \union C
      /\ A \in SUBSET books.paper /\ B \in SUBSET books.paper /\ D \in SUBSET books.paper
      /\ C \in SUBSET books.paper /\ A \union B \in SUBSET books.paper
  <2> DEFINE dayOf == [p \in books.paper |-> Signal(p).day]
  <2>1. /\ \A p \in books.paper : dayOf[p] \in Int
        /\ A = {p \in books.paper : f <= dayOf[p] /\ dayOf[p] < m}
        /\ B = {p \in books.paper : m + 1 <= dayOf[p] /\ dayOf[p] < t}
        /\ C = {p \in books.paper : dayOf[p] = m}
        /\ D = {p \in books.paper : f <= dayOf[p] /\ dayOf[p] < t}
    BY <1>2, <1>3
  <2> HIDE DEF dayOf, C
  <2>2. A \cap B = {} /\ (A \union B) \cap C = {}
    BY <1>1, <2>1
  <2>3. ASSUME NEW p PROVE p \in D <=> p \in A \/ p \in B \/ p \in C
    <3>1. p \in books.paper => dayOf[p] \in Int
      BY <2>1
    <3> QED
      BY <1>1, <2>1, <3>1
  <2>4. D = (A \union B) \union C
    BY <2>3
  <2> QED
    BY <2>1, <2>2, <2>4
<1> HIDE DEF C, w
<1>5. IsFiniteSet(A) /\ IsFiniteSet(B) /\ IsFiniteSet(C) /\ IsFiniteSet(A \union B)
  BY <1>2, <1>4, FS_Subset
<1>6. SumOf(w, A \union B) = SumOf(w, A) + SumOf(w, B)
  BY <1>2, <1>4, <1>5, SumOfUnion
<1>7. SumOf(w, (A \union B) \union C) = SumOf(w, A \union B) + SumOf(w, C)
  BY <1>2, <1>4, <1>5, SumOfUnion
<1>8. ASSUME NEW T \in SUBSET books.paper
      PROVE  /\ SumOf([p \in T |-> p.pnl], T) = SumOf(w, T)
             /\ SumOf(w, T) \in Int
  <2>1. [p \in T |-> p.pnl] = [p \in T |-> w[p]]
    BY DEF w
  <2>2. SumOf([p \in T |-> w[p]], T) = SumOf(w, T) /\ SumOf(w, T) \in Int
    BY <1>2, SumOfPartIs
  <2> QED
    BY <2>1, <2>2
<1>9. /\ portfolio_compute("PAPER", f, m).total = SumOf(w, A)
      /\ portfolio_compute("PAPER", m + 1, t).total = SumOf(w, B)
      /\ portfolio_compute("PAPER", f, t).total = SumOf(w, D)
  <2>1. /\ portfolio_compute("PAPER", f, m).total = PaperSum("net", "PAPER", f, m)
        /\ portfolio_compute("PAPER", m + 1, t).total = PaperSum("net", "PAPER", m + 1, t)
        /\ portfolio_compute("PAPER", f, t).total = PaperSum("net", "PAPER", f, t)
    BY <1>1, CombinedReport
  <2>2. ASSUME NEW x, NEW y
        PROVE  PaperSum("net", "PAPER", x, y)
                 = SumOf([p \in list_between(x, y) |-> p.pnl], list_between(x, y))
    BY DEF PaperSum, PaperOf, InMode, Weight
  <2> QED
    BY <1>4, <1>8, <2>1, <2>2 DEF A, B, D
<1>10. SumValues([p \in C |-> p.pnl]) = SumOf(w, C)
  BY <1>4, <1>8, SumValuesIs
<1>11. SumOf(w, A) \in Int /\ SumOf(w, B) \in Int /\ SumOf(w, C) \in Int
  BY <1>4, <1>8
<1>12. SumOf(w, D) = SumOf(w, A) + SumOf(w, B) + SumOf(w, C)
  BY <1>4, <1>6, <1>7
<1>13. SumOf(w, A) + SumOf(w, B) + SumOf(w, C) = SumOf(w, D)
  BY <1>12
<1> QED
  BY <1>9, <1>10, <1>13 DEF C

(* The places that come before i: those that a rank counts.                  *)
Before(values, i) ==
    {j \in DOMAIN values : values[j] > values[i] \/ (values[j] = values[i] /\ j < i)}
Ranked(values, n) ==
    n \in Nat /\ DOMAIN values = 1 .. n /\ \A i \in 1 .. n : values[i] \in Int

LEMMA BeforeIs ==
    ASSUME NEW values, NEW n, Ranked(values, n)
    PROVE  /\ \A i \in 1 .. n : /\ rank(values)[i] = 1 + Cardinality(Before(values, i))
                                /\ IsFiniteSet(Before(values, i))
                                /\ Cardinality(Before(values, i)) \in 0 .. n - 1
                                /\ (rank(values)[i] = 1 <=> Before(values, i) = {})
           /\ \A i, j \in 1 .. n :
                  i \in Before(values, j) => rank(values)[i] < rank(values)[j]
<1>1. IsFiniteSet(1 .. n) /\ Cardinality(1 .. n) = n /\ n \in Nat
  BY FS_Interval DEF Ranked
<1>2. \A i \in 1 .. n : rank(values)[i] = 1 + Cardinality(Before(values, i))
  BY DEF rank, Before, Ranked
<1>3. ASSUME NEW i \in 1 .. n
      PROVE  /\ IsFiniteSet(Before(values, i))
             /\ Cardinality(Before(values, i)) \in 0 .. n - 1
  <2>1. Before(values, i) \in SUBSET ((1 .. n) \ {i})
    BY DEF Before, Ranked
  <2>2. IsFiniteSet((1 .. n) \ {i}) /\ Cardinality((1 .. n) \ {i}) = n - 1
    BY <1>1, FS_RemoveElement
  <2>3. IsFiniteSet(Before(values, i)) /\ Cardinality(Before(values, i)) <= n - 1
    BY <2>1, <2>2, FS_Subset
  <2>4. Cardinality(Before(values, i)) \in Nat
    BY <2>3, FS_CardinalityType
  <2> QED
    BY <1>1, <2>3, <2>4
<1>4. ASSUME NEW i \in 1 .. n PROVE rank(values)[i] = 1 <=> Before(values, i) = {}
  <2>1. IsFiniteSet(Before(values, i))
    BY <1>3
  <2>2. Cardinality(Before(values, i)) \in Nat
    BY <1>3
  <2>3. Cardinality(Before(values, i)) = 0 <=> Before(values, i) = {}
    BY <2>1, FS_EmptySet
  <2> QED
    BY <1>2, <2>2, <2>3
<1>5. ASSUME NEW i \in 1 .. n, NEW j \in 1 .. n, i \in Before(values, j)
      PROVE  rank(values)[i] < rank(values)[j]
  <2> DEFINE A == Before(values, i)
             B == Before(values, j)
  <2>1. A \in SUBSET (B \ {i})
    <3> SUFFICES ASSUME NEW k \in A PROVE k \in B /\ k # i
      OBVIOUS
    <3>1. k \in 1 .. n /\ values[i] \in Int /\ values[j] \in Int /\ values[k] \in Int
      BY DEF Before, Ranked
    <3>2. values[k] > values[i] \/ (values[k] = values[i] /\ k < i)
      BY DEF Before
    <3>3. values[i] > values[j] \/ (values[i] = values[j] /\ i < j)
      BY <1>5 DEF Before
    <3>4. values[k] > values[j] \/ (values[k] = values[j] /\ k < j)
      BY <3>1, <3>2, <3>3
    <3>5. k \in B
      BY <3>1, <3>4 DEF Before, Ranked
    <3> QED
      BY <3>1, <3>2, <3>5
  <2>2. IsFiniteSet(B) /\ Cardinality(B) \in Int /\ Cardinality(A) \in Int
    BY <1>3
  <2> HIDE DEF A, B
  <2>3. IsFiniteSet(B \ {i}) /\ Cardinality(B \ {i}) = Cardinality(B) - 1
    BY <1>5, <2>2, FS_RemoveElement DEF B
  <2>4. Cardinality(A) <= Cardinality(B \ {i})
    BY <2>1, <2>3, FS_Subset
  <2> QED
    BY <1>2, <2>2, <2>3, <2>4 DEF A, B
<1> QED
  BY <1>2, <1>3, <1>4, <1>5

(* The places are a permutation, and the best holds place 1.                 *)
LEMMA RankIsPermutation ==
    ASSUME NEW values, NEW n, Ranked(values, n)
    PROVE  /\ {rank(values)[i] : i \in 1 .. n} = 1 .. n
           /\ \A i, j \in 1 .. n : rank(values)[i] = rank(values)[j] => i = j
<1> DEFINE k == rank(values)
           K == {k[i] : i \in 1 .. n}
<1>1. IsFiniteSet(1 .. n) /\ Cardinality(1 .. n) = n /\ n \in Nat
  BY FS_Interval DEF Ranked
<1>2. /\ \A i \in 1 .. n : /\ k[i] = 1 + Cardinality(Before(values, i))
                           /\ Cardinality(Before(values, i)) \in 0 .. n - 1
      /\ \A i, j \in 1 .. n : i \in Before(values, j) => k[i] < k[j]
  <2>1. \A i, j \in 1 .. n : i \in Before(values, j) => k[i] < k[j]
    BY BeforeIs
  <2>2. \A i \in 1 .. n : k[i] = 1 + Cardinality(Before(values, i))
    BY BeforeIs
  <2>3. \A i \in 1 .. n : Cardinality(Before(values, i)) \in 0 .. n - 1
    BY BeforeIs
  <2> QED
    BY <2>1, <2>2, <2>3
<1> HIDE DEF k
<1>3. ASSUME NEW i \in 1 .. n PROVE k[i] \in 1 .. n
  <2> DEFINE c == Cardinality(Before(values, i))
  <2>1. k[i] = 1 + c /\ c \in 0 .. n - 1
    BY <1>2
  <2> HIDE DEF c
  <2> QED
    BY <1>1, <2>1
<1>4. ASSUME NEW i \in 1 .. n, NEW j \in 1 .. n, k[i] = k[j] PROVE i = j
  <2>1. SUFFICES ASSUME i # j PROVE FALSE
    OBVIOUS
  <2>2. values[i] \in Int /\ values[j] \in Int /\ DOMAIN values = 1 .. n
    BY DEF Ranked
  <2>3. i \in Before(values, j) \/ j \in Before(values, i)
    BY <2>1, <2>2 DEF Before
  <2>4. k[i] \in Int /\ k[j] \in Int
    BY <1>3
  <2> QED
    BY <1>2, <1>4, <2>3, <2>4
<1>5. K \in SUBSET (1 .. n)
  BY <1>3
<1>6. Cardinality(K) = n
  <2> DEFINE D == 1 .. n
  <2>1. IsFiniteSet(D) /\ \A x, y \in D : k[x] = k[y] => x = y
    BY <1>1, <1>4
  <2> HIDE DEF D
  <2>2. (\A x, y \in D : k[x] = k[y] => x = y)
            => Cardinality({k[x] : x \in D}) = Cardinality(D)
    BY <2>1, FiniteImage
  <2>3. Cardinality({k[x] : x \in D}) = Cardinality(D)
    BY <2>1, <2>2
  <2> QED
    BY <1>1, <2>3 DEF D
<1> HIDE DEF K
<1>7. K = 1 .. n
  BY <1>1, <1>5, <1>6, FS_Subset
<1> QED
  BY <1>4, <1>7 DEF K, k

Leads(values, i) ==
    \A j \in DOMAIN values : values[j] < values[i] \/ (values[j] = values[i] /\ i <= j)

LEMMA BestIsFirst ==
    ASSUME NEW values, NEW n, Ranked(values, n), n # 0
    PROVE  LET best == CHOOSE i \in DOMAIN values : Leads(values, i)
           IN  /\ best \in 1 .. n
               /\ \A i \in 1 .. n : rank(values)[i] = 1 <=> i = best
<1>1. \A i \in 1 .. n : Leads(values, i) <=> Before(values, i) = {}
  BY DEF Leads, Before, Ranked
<1>2. \A i \in 1 .. n : rank(values)[i] = 1 <=> Before(values, i) = {}
  BY BeforeIs
<1>3. n \in Nat /\ DOMAIN values = 1 .. n
  BY DEF Ranked
<1>4. \E i \in 1 .. n : rank(values)[i] = 1
  <2>1. {rank(values)[i] : i \in 1 .. n} = 1 .. n
    BY RankIsPermutation
  <2>2. 1 \in 1 .. n
    BY <1>3
  <2> QED
    BY <2>1, <2>2
<1> DEFINE best == CHOOSE i \in DOMAIN values : Leads(values, i)
<1>5. best \in 1 .. n /\ Leads(values, best)
  BY <1>1, <1>2, <1>3, <1>4
<1> HIDE DEF best
<1>6. rank(values)[best] = 1
  BY <1>1, <1>2, <1>5
<1>7. \A i \in 1 .. n : rank(values)[i] = 1 => i = best
  BY <1>5, <1>6, RankIsPermutation
<1>8. \A i \in 1 .. n : rank(values)[i] = 1 <=> i = best
  BY <1>6, <1>7
<1> QED
  BY <1>5, <1>8 DEF best

(* In a list that is best first, the place of an entry is its index.         *)
LEMMA RankOfSorted ==
    ASSUME NEW values, NEW n, Ranked(values, n),
           \A i, j \in 1 .. n : i < j => values[i] >= values[j]
    PROVE  \A i \in 1 .. n : rank(values)[i] = i
<1> SUFFICES ASSUME NEW i \in 1 .. n PROVE rank(values)[i] = i
  OBVIOUS
<1>1. n \in Nat /\ i \in Int /\ 1 <= i
  BY DEF Ranked
<1>2. ASSUME NEW j PROVE j \in Before(values, i) <=> j \in 1 .. i - 1
  <2>1. CASE j \in 1 .. n
    BY <2>1 DEF Before, Ranked
  <2>2. CASE j \notin 1 .. n
    BY <1>1, <2>2 DEF Before, Ranked
  <2> QED
    BY <2>1, <2>2
<1>3. Before(values, i) = 1 .. i - 1
  BY <1>2
<1>4. Cardinality(1 .. i - 1) = i - 1
  BY <1>1, FS_Interval
<1>5. rank(values)[i] = 1 + Cardinality(Before(values, i))
  BY BeforeIs
<1> QED
  BY <1>1, <1>3, <1>4, <1>5

(* The comparison: its entries are in the order of their profits, and each   *)
(* "best" entry is the strategy that holds place 1.                          *)
BestOf(names, values) ==
    IF names = << >> THEN None ELSE names[CHOOSE i \in DOMAIN names :
        \A j \in DOMAIN names : values[j] < values[i] \/ (values[j] = values[i] /\ i <= j)]

LEMMA BestOfIs ==
    ASSUME NEW names, NEW values, NEW n, Ranked(values, n), DOMAIN names = 1 .. n,
           \A i, j \in 1 .. n : i # j => names[i] # names[j]
    PROVE  \A i \in 1 .. n : rank(values)[i] = 1 <=> names[i] = BestOf(names, values)
<1> SUFFICES ASSUME NEW i \in 1 .. n
             PROVE  rank(values)[i] = 1 <=> names[i] = BestOf(names, values)
  OBVIOUS
<1> DEFINE best == CHOOSE j \in DOMAIN values : Leads(values, j)
<1>1. n \in Nat /\ DOMAIN values = DOMAIN names /\ n # 0
  BY DEF Ranked
<1>2. names # << >>
  BY <1>1
<1>3. BestOf(names, values) = names[best]
  BY <1>1, <1>2 DEF BestOf, Leads
<1>4. best \in 1 .. n /\ (rank(values)[i] = 1 <=> i = best)
  BY <1>1, BestIsFirst
<1> HIDE DEF best
<1> QED
  BY <1>3, <1>4

LEMMA ComparisonIs ==
    ASSUME BooksInv, NEW mode, NEW f \in Int, NEW t \in Int
    PROVE  PlacesArePermutation(mode, f, t)
<1> DEFINE perf == strategy_compute(mode, f, t)
           S == DOMAIN perf
           value == [s \in S |-> -perf[s].net]
           names == SortedBy(S, value)
           n == Cardinality(S)
           pnls == [i \in DOMAIN names |-> perf[names[i]].net]
           rates == [i \in DOMAIN names |-> perf[names[i]].win_rate]
           compared == compare_strategies(mode, f, t)
           entries == compared.rows
<1>1. /\ entries = [i \in DOMAIN names |->
                   [strat |-> names[i], net_pnl |-> rank(pnls)[i], win_rate |-> rank(rates)[i]]]
      /\ compared.best_by_pnl = BestOf(names, pnls)
      /\ compared.best_by_win_rate = BestOf(names, rates)
  BY DEF compare_strategies, BestOf
<1> HIDE DEF compared
<1>2. \A s \in S : perf[s].net \in Int /\ perf[s].win_rate \in Int
  BY StrategyReport
<1>3. IsFiniteSet(S)
  <2> DEFINE R == strategy_rows(mode, f, t)
             key == [r \in R |-> r.strat]
  <2>1. IsFiniteSet(R)
    BY StrategyRowsSum
  <2>2. S = {r.strat : r \in R}
    BY StrategyReport
  <2>3. S = {key[r] : r \in R}
    BY <2>2
  <2> HIDE DEF R, key, S
  <2> QED
    BY <2>1, <2>3, FiniteImage
<1> HIDE DEF perf
<1>4. \A s \in S : value[s] \in Int
  BY <1>2
<1> HIDE DEF S, value
<1>5. Enumerates(names, S) /\ Sorted(names, value)
  BY <1>3, <1>4, SortedByIs
<1>6. n \in Nat
  BY <1>3, FS_CardinalityType
<1>7. /\ DOMAIN names = 1 .. n
      /\ \A i \in 1 .. n : names[i] \in S
      /\ \A i, j \in 1 .. n : i # j => names[i] # names[j]
      /\ \A i, j \in 1 .. n : i < j => value[names[i]] <= value[names[j]]
  BY <1>5 DEF Enumerates, Sorted
<1> HIDE DEF names, n
<1>8. Ranked(pnls, n) /\ Ranked(rates, n)
  BY <1>2, <1>6, <1>7 DEF Ranked
<1>9. \A i, j \in 1 .. n : i < j => pnls[i] >= pnls[j]
  <2>1. \A i \in 1 .. n : value[names[i]] = -pnls[i] /\ pnls[i] \in Int
    BY <1>2, <1>7 DEF value, S
  <2> HIDE DEF pnls
  <2> QED
    BY <1>7, <2>1
<1> HIDE DEF pnls, rates
<1>10. \A i \in 1 .. n : rank(pnls)[i] = i
  BY <1>8, <1>9, RankOfSorted
<1>11. \A i \in 1 .. n : rank(pnls)[i] = 1 <=> names[i] = BestOf(names, pnls)
  BY <1>7, <1>8, BestOfIs
<1>12. \A i \in 1 .. n : rank(rates)[i] = 1 <=> names[i] = BestOf(names, rates)
  BY <1>7, <1>8, BestOfIs
<1>13. {rank(rates)[i] : i \in 1 .. n} = 1 .. n
  BY <1>8, RankIsPermutation
<1>14. /\ DOMAIN entries = 1 .. n
       /\ \A i \in 1 .. n : /\ entries[i].strat = names[i] /\ entries[i].net_pnl = rank(pnls)[i]
                            /\ entries[i].win_rate = rank(rates)[i]
  BY <1>1, <1>7
<1> HIDE DEF entries
<1>15. {entries[i].win_rate : i \in DOMAIN entries} = DOMAIN entries
  BY <1>13, <1>14
<1>16. \A i \in DOMAIN entries :
           /\ entries[i].net_pnl = i
           /\ i = 1 <=> entries[i].strat = compared.best_by_pnl
           /\ entries[i].win_rate = 1 <=> entries[i].strat = compared.best_by_win_rate
  BY <1>1, <1>10, <1>11, <1>12, <1>14
<1> QED
  BY <1>15, <1>16 DEF PlacesArePermutation, HeadedByBest, compared, entries

(* Every analytics engine tells the same story about the same books.         *)
LEMMA AttributionAlways == BooksInv => AttributionReconciles
<1> SUFFICES ASSUME BooksInv, NEW f \in ReportDays, NEW t \in ReportDays, f <= t
             PROVE  /\ \A mode \in Modes : EnginesAgree(mode, f, t)
                    /\ ModesAddUp(f, t)
                    /\ \A m \in f .. t - 1 : PeriodsAddUp(f, m, t)
                    /\ PlacesArePermutation("COMBINED", f, t)
  BY DEF AttributionReconciles
<1>1. f \in Int /\ t \in Int
  BY ReportAssumption
<1>2. ASSUME NEW mode \in Modes PROVE EnginesAgree(mode, f, t)
  <2> DEFINE perf == strategy_compute(mode, f, t)
             stocks == stock_compute(mode, f, t)
             portfolio == portfolio_compute(mode, f, t)
             capital == efficiency_compute(mode, f, t)
  <2>1. /\ SumField(perf, "net") = DocumentSum("net", mode, f, t)
        /\ SumField(perf, "trades") = DocumentSum("trades", mode, f, t)
        /\ SumField(perf, "wins") = DocumentSum("wins", mode, f, t)
    BY <1>1, StrategyReport
  <2>2. /\ SumField(stocks, "net") = DocumentSum("net", mode, f, t)
        /\ SumField(stocks, "trades") = DocumentSum("trades", mode, f, t)
        /\ SumField(stocks, "wins") = DocumentSum("wins", mode, f, t)
        /\ \A y \in DOMAIN stocks : stocks[y].net = SumValues(stocks[y].by_strategy)
    BY <1>1, StockReport
  <2>3. /\ portfolio.total = DocumentSum("net", mode, f, t)
        /\ portfolio.total = SumValues(portfolio.merged_daily)
    BY <1>1, PortfolioReport
  <2>4. /\ capital.net = DocumentSum("net", mode, f, t)
        /\ capital.approved <= capital.signals
        /\ capital.allocated + capital.idle = TotalCapital
    BY <1>1, CapitalReport
  <2> HIDE DEF perf, stocks, portfolio, capital
  <2>5. /\ SumField(perf, "net") = SumField(stocks, "net")
        /\ SumField(perf, "trades") = SumField(stocks, "trades")
        /\ SumField(perf, "wins") = SumField(stocks, "wins")
        /\ \A y \in DOMAIN stocks : stocks[y].net = SumValues(stocks[y].by_strategy)
        /\ portfolio.total = capital.net
        /\ portfolio.total = SumValues(portfolio.merged_daily)
        /\ capital.approved <= capital.signals
        /\ capital.allocated + capital.idle = TotalCapital
    BY <2>1, <2>2, <2>3, <2>4
  <2> QED
    BY <2>5 DEF EnginesAgree, perf, stocks, portfolio, capital
<1>3. ModesAddUp(f, t)
  BY <1>1, CombinedReport DEF ModesAddUp
<1>4. ASSUME NEW m \in f .. t - 1 PROVE PeriodsAddUp(f, m, t)
  <2>1. ASSUME NEW mode \in {"LIVE", "BACKTEST"}, NEW s \in Strategies \union {"live"}
        PROVE  LET halves == compare_periods(mode, s, f, m, m + 1, t)
                   whole == strategy_compute(mode, f, t)
               IN  halves.a + halves.b = IF s \in DOMAIN whole THEN whole[s].net ELSE 0
    BY <1>1, AdjoiningPeriods, ZenonT(30)
  <2>2. portfolio_compute("PAPER", f, m).total + portfolio_compute("PAPER", m + 1, t).total
          + SumValues([p \in {q \in books.paper : Signal(q).day = m} |-> p.pnl])
          = portfolio_compute("PAPER", f, t).total
    BY <1>1, PaperPeriods
  <2> QED
    BY <2>1, <2>2 DEF PeriodsAddUp
<1>5. PlacesArePermutation("COMBINED", f, t)
  BY <1>1, ComparisonIs
<1> QED
  BY <1>2, <1>3, <1>4, <1>5

(* Divisions and extremes.                                                   *)
LEMMA DivNatural ==
    ASSUME NEW a \in Nat, NEW b \in Nat \ {0}
    PROVE  a \div b \in Nat
<1> DEFINE q == a \div b
<1>1. q \in Int /\ b * q <= a /\ a < b * q + b
  BY SMTT(30)
<1> HIDE DEF q
<1>2. q >= 0
  <2>1. SUFFICES ASSUME q + 1 <= 0 PROVE FALSE
    BY <1>1
  <2>2. b * (q + 1) <= 0
    BY <1>1, <2>1
  <2>3. b * (q + 1) = b * q + b
    BY <1>1
  <2>4. b * q \in Int /\ b * (q + 1) \in Int
    BY <1>1
  <2> QED
    BY <1>1, <2>2, <2>3, <2>4
<1> QED
  BY <1>1, <1>2 DEF q

LEMMA DivOfPart ==
    ASSUME NEW a \in Nat, NEW b \in Nat \ {0}, a <= b
    PROVE  (a * 100) \div b \in 0 .. 100
<1> DEFINE q == (a * 100) \div b
<1>1. a * 100 \in Nat
  OBVIOUS
<1>2. q \in Nat
  BY <1>1, DivNatural
<1>3. b * q <= a * 100
  BY <1>1, SMTT(30)
<1> HIDE DEF q
<1>4. q <= 100
  <2>1. SUFFICES ASSUME q >= 101 PROVE FALSE
    BY <1>2
  <2>2. b * q >= b * 101
    BY <1>2, <2>1
  <2>3. b * q \in Int
    BY <1>2
  <2> QED
    BY <1>3, <2>2, <2>3
<1> QED
  BY <1>2, <1>4 DEF q

Worst(S) == Max({0} \union {x.bps : x \in S})

LEMMA WorstIs ==
    ASSUME NEW S, IsFiniteSet(S), \A x \in S : x.bps \in Int
    PROVE  /\ Worst(S) \in Int /\ Worst(S) >= 0
           /\ \A x \in S : Worst(S) >= x.bps
           /\ Worst(S) = 0 \/ \E x \in S : Worst(S) = x.bps
<1> DEFINE k == [x \in S |-> x.bps]
           K == {k[x] : x \in S}
           V == {0} \union {x.bps : x \in S}
<1>1. V = K \union {0}
  OBVIOUS
<1>2. V \subseteq Int /\ V # {}
  OBVIOUS
<1>3. IsFiniteSet(K)
  <2> HIDE DEF k
  <2> QED
    BY FiniteImage
<1> HIDE DEF V, K
<1>4. IsFiniteSet(V)
  BY <1>1, <1>3, FS_AddElement
<1>5. Max(V) \in V /\ \A x \in V : Max(V) >= x
  BY <1>2, <1>4, MaxExists
<1>6. Worst(S) = Max(V)
  BY DEF Worst, V
<1> QED
  BY <1>2, <1>5, <1>6 DEF V

Samples(S) == IsFiniteSet(S) /\ \A x \in S : x.bps \in Int /\ x.cost \in Int

(* The worst sample is the worst of its symbol.                              *)
WorstGrouped(w, Y, S) ==
    /\ Y = {x.sym : x \in S}
    /\ \A y \in Y : w[y] = Worst({x \in S : x.sym = y})

LEMMA WorstOfGroups ==
    ASSUME NEW S, Samples(S), NEW Y, NEW w, WorstGrouped(w, Y, S)
    PROVE  Worst(S) = Max({0} \union {w[y] : y \in Y})
<1> DEFINE key == [x \in S |-> x.sym]
           Of(y) == {x \in S : x.sym = y}
           W == {w[y] : y \in Y}
           V == W \union {0}
           m == Max(V)
           n == Worst(S)
<1>1. IsFiniteSet(S) /\ (\A x \in S : x.bps \in Int) /\ Y = {key[x] : x \in S}
  BY DEF Samples, WorstGrouped
<1>2. IsFiniteSet(Y)
  <2> HIDE DEF key
  <2>1. IsFiniteSet({key[x] : x \in S})
    BY <1>1, FiniteImage
  <2> QED
    BY <1>1, <2>1
<1>3. IsFiniteSet(W)
  BY <1>2, FiniteImage
<1>4. IsFiniteSet(V) /\ V # {}
  <2> HIDE DEF W
  <2> QED
    BY <1>3, FS_AddElement
<1>5. ASSUME NEW y \in Y
      PROVE  /\ w[y] \in Int /\ w[y] >= 0
             /\ \A x \in Of(y) : w[y] >= x.bps
             /\ w[y] = 0 \/ \E x \in Of(y) : w[y] = x.bps
  <2>1. IsFiniteSet(Of(y)) /\ \A x \in Of(y) : x.bps \in Int
    BY <1>1, FS_Subset
  <2>2. w[y] = Worst(Of(y))
    BY DEF WorstGrouped
  <2> HIDE DEF Of
  <2> QED
    BY <2>1, <2>2, WorstIs
<1>6. V \subseteq Int
  BY <1>5
<1>7. m \in V /\ \A v \in V : m >= v
  <2> HIDE DEF V
  <2> QED
    BY <1>4, <1>6, MaxExists
<1>8. /\ n \in Int /\ n >= 0 /\ \A x \in S : n >= x.bps
      /\ n = 0 \/ \E x \in S : n = x.bps
  BY <1>1, WorstIs
<1> HIDE DEF m, n
<1>9. m >= 0 /\ m \in Int
  BY <1>6, <1>7
<1>10. n <= m
  <2>1. CASE n = 0
    BY <1>9, <2>1
  <2>2. ASSUME NEW x \in S, n = x.bps PROVE n <= m
    <3>1. x.sym \in Y /\ x \in Of(x.sym)
      BY DEF WorstGrouped
    <3>2. w[x.sym] >= x.bps /\ w[x.sym] \in V /\ w[x.sym] \in Int
      BY <1>5, <3>1
    <3>3. m >= w[x.sym]
      BY <1>7, <3>2
    <3> QED
      BY <1>8, <1>9, <2>2, <3>2, <3>3
  <2> QED
    BY <1>8, <2>1, <2>2
<1>11. m <= n
  <2>1. CASE m = 0
    BY <1>8, <2>1
  <2>2. ASSUME NEW y \in Y, m = w[y] PROVE m <= n
    <3>1. w[y] = 0 \/ \E x \in S : w[y] = x.bps
      BY <1>5
    <3> QED
      BY <1>8, <1>9, <2>2, <3>1
  <2> QED
    BY <1>7, <2>1, <2>2
<1>12. m = n
  BY <1>8, <1>9, <1>10, <1>11
<1>13. V = {0} \union {w[y] : y \in Y}
  OBVIOUS
<1> QED
  BY <1>12, <1>13 DEF m, n

LEMMA SlippageSums ==
    ASSUME NEW S, Samples(S)
    PROVE  SlippageAddsUp(slippage_aggregate(S))
<1> DEFINE key == [x \in S |-> x.sym]
           one == [x \in S |-> 1]
           cost == [x \in S |-> x.cost]
           Y == {x.sym : x \in S}
           Of(y) == {x \in S : x.sym = y}
           slip == slippage_aggregate(S)
           by == slip.by_symbol
           counts == [y \in Y |-> by[y]["count"]]
           costs == [y \in Y |-> by[y]["cost"]]
           worsts == [y \in Y |-> by[y].worst]
<1>1. /\ slip.count = Cardinality(S) /\ slip.cost = SumValues([x \in S |-> x.cost])
      /\ slip.worst = Worst(S)
      /\ by = [y \in Y |-> [count |-> Cardinality(Of(y)), worst |-> Worst(Of(y)),
                            cost |-> SumValues([x \in Of(y) |-> x.cost])]]
  BY DEF slippage_aggregate, Worst
<1>2. IsFiniteSet(S) /\ (\A x \in S : one[x] \in Int) /\ \A x \in S : cost[x] \in Int
  BY DEF Samples
<1>3. Y = {key[x] : x \in S} /\ \A y : Of(y) = {x \in S : key[x] = y}
  OBVIOUS
<1> HIDE DEF slip
<1>4. \A y \in Y : /\ counts[y] = Cardinality(Of(y)) /\ worsts[y] = Worst(Of(y))
                   /\ costs[y] = SumValues([x \in Of(y) |-> x.cost])
  BY <1>1
<1> HIDE DEF counts, costs, worsts
<1>5. \A T \in SUBSET S : SumOf(one, T) = Cardinality(T)
  <2>1. SUFFICES ASSUME NEW T \in SUBSET S PROVE SumOf(one, T) = Cardinality(T)
    OBVIOUS
  <2>2. IsFiniteSet(T) /\ T \in SUBSET T /\ \A x \in T : one[x] = IF x \in T THEN 1 ELSE 0
    BY <1>2, FS_Subset
  <2> HIDE DEF one
  <2> QED
    BY <2>2, SumOfOnes
<1>6. \A T \in SUBSET S : SumValues([x \in T |-> x.cost]) = SumOf(cost, T)
  <2>1. SUFFICES ASSUME NEW T \in SUBSET S
                 PROVE  SumValues([x \in T |-> x.cost]) = SumOf(cost, T)
    OBVIOUS
  <2>2. [x \in T |-> x.cost] = [x \in T |-> cost[x]]
    OBVIOUS
  <2> HIDE DEF cost
  <2>3. SumOf([x \in T |-> cost[x]], T) = SumOf(cost, T)
    BY <1>2, SumOfPartIs
  <2>4. SumValues([x \in T |-> cost[x]]) = SumOf([x \in T |-> cost[x]], T)
    BY SumValuesIs
  <2> QED
    BY <2>2, <2>3, <2>4
<1> HIDE DEF key, one, cost
<1>7. Grouped(counts, one, key, S)
  BY <1>3, <1>4, <1>5 DEF Grouped
<1>8. Grouped(costs, cost, key, S)
  BY <1>3, <1>4, <1>6 DEF Grouped
<1>9. SumOf(counts, Y) = SumOf(one, S)
  <2>1. SumOf(counts, {key[x] : x \in S}) = SumOf(one, S)
    BY <1>2, <1>7, SumOfGroups
  <2> QED
    BY <1>3, <2>1
<1>10. SumOf(costs, Y) = SumOf(cost, S)
  <2>1. SumOf(costs, {key[x] : x \in S}) = SumOf(cost, S)
    BY <1>2, <1>8, SumOfGroups
  <2> QED
    BY <1>3, <2>1
<1>11. DOMAIN by = Y
  BY <1>1
<1>12. SumField(by, "count") = SumOf(counts, Y) /\ SumField(by, "cost") = SumOf(costs, Y)
  <2> DEFINE a == [y \in DOMAIN by |-> by[y]["count"]]
             b == [y \in DOMAIN by |-> by[y]["cost"]]
  <2>1. a = counts /\ b = costs /\ DOMAIN a = Y /\ DOMAIN b = Y
    BY <1>11 DEF counts, costs
  <2>2. SumField(by, "count") = SumValues(a) /\ SumField(by, "cost") = SumValues(b)
    BY DEF SumField
  <2> HIDE DEF a, b
  <2> QED
    BY <2>1, <2>2, SumValuesIs
<1>13. slip.count = SumField(by, "count") /\ slip.cost = SumField(by, "cost")
  BY <1>1, <1>5, <1>6, <1>9, <1>10, <1>12
<1>14. Worst(S) = Max({0} \union {worsts[y] : y \in Y})
  <2>1. WorstGrouped(worsts, Y, S)
    BY <1>4 DEF WorstGrouped
  <2> HIDE DEF Y
  <2> QED
    BY <2>1, WorstOfGroups
<1>15. {worsts[y] : y \in Y} = {by[y].worst : y \in DOMAIN by}
  BY <1>11 DEF worsts
<1> QED
  BY <1>1, <1>13, <1>14, <1>15 DEF SlippageAddsUp, slip

LEMMA SamplesAre ==
    ASSUME BooksInv, NEW s, NEW f, NEW t
    PROVE  Samples(slippage_samples("COMBINED", s, f, t))
<1> DEFINE P == {q \in OpenedBetween(books.paper, f, t) : Signal(q).strat = s}
           L == OpenedBetween(books.live, f, t)
           kp == [p \in P |-> [id |-> <<"paper", p.sig, p.n>>, sym |-> Signal(p).sym,
                               bps |-> Bps(Entry(p), Signal(p).price), cost |-> p.slip]]
           kl == [p \in L |-> [id |-> <<"live", p.sig, 1>>, sym |-> Signal(p).sym,
                               bps |-> 0, cost |-> 0]]
           KP == {kp[p] : p \in P}
           KL == {kl[p] : p \in L}
<1>1. slippage_samples("COMBINED", s, f, t) = KP \union KL
  BY DEF slippage_samples, InMode
<1>2. IsFiniteSet(P) /\ IsFiniteSet(L)
  <2>1. P \in SUBSET books.paper /\ L \in SUBSET books.live
    BY DEF OpenedBetween
  <2> HIDE DEF P, L
  <2> QED
    BY <2>1, FS_Subset DEF BooksInv, BooksFinite
<1>3. ASSUME NEW p \in P PROVE kp[p].bps \in Int /\ kp[p].cost \in Int
  <2>1. p \in PaperTrades
    BY DEF OpenedBetween, BooksInv, BooksType
  <2>2. p.slip \in Int /\ Signal(p).price \in Nat \ {0}
    BY <2>1, ReportAssumption DEF PaperTrades, Signal
  <2>3. Bps(Entry(p), Signal(p).price) \in Int
    BY <2>2 DEF Bps, Entry
  <2> QED
    BY <2>2, <2>3
<1>4. \A p \in L : kl[p].bps \in Int /\ kl[p].cost \in Int
  OBVIOUS
<1> HIDE DEF kp, kl, P, L
<1>5. IsFiniteSet(KP) /\ IsFiniteSet(KL)
  BY <1>2, FiniteImage
<1>6. \A x \in KP \union KL : x.bps \in Int /\ x.cost \in Int
  BY <1>3, <1>4
<1> HIDE DEF KP, KL
<1>7. IsFiniteSet(KP \union KL)
  BY <1>5, FS_Union
<1> QED
  BY <1>1, <1>6, <1>7 DEF Samples

(* Health scores.                                                            *)
Inputs(h) ==
    /\ IsFiniteSet(h.generated) /\ IsFiniteSet(h.trades)
    /\ \A p \in h.trades : /\ p.sig \in h.generated /\ p.pnl \in Int /\ p.slip \in Nat
                           /\ Signal(p).price \in Nat \ {0}
    /\ \A p, q \in h.trades : p.sig = q.sig /\ p.n = q.n => p = q

LEMMA HealthInputsAre ==
    ASSUME BooksInv, NEW s, NEW f, NEW t
    PROVE  Inputs(HealthInputs(s, f, t))
<1> DEFINE g == SignalsOf(s, f, t)
           deals == {p \in books.paper : p.sig \in g}
           h == HealthInputs(s, f, t)
<1>1. h.generated = g /\ h.trades = deals
  BY DEF HealthInputs
<1>2. g \in SUBSET books.signals /\ deals \in SUBSET books.paper
  BY DEF SignalsOf
<1>3. IsFiniteSet(g) /\ IsFiniteSet(deals)
  <2> HIDE DEF g, deals
  <2> QED
    BY <1>2, FS_Subset DEF BooksInv, BooksFinite
<1>4. \A p \in deals : p \in PaperTrades /\ p.sig \in DOMAIN SignalTable
  BY DEF BooksInv, BooksType, PaperTrades
<1>5. \A p \in deals : /\ p.sig \in g /\ p.pnl \in Int /\ p.slip \in Nat
                        /\ Signal(p).price \in Nat \ {0}
  BY <1>4, ReportAssumption DEF PaperTrades, Signal
<1>6. \A p, q \in deals : p.sig = q.sig /\ p.n = q.n => p = q
  BY DEF BooksInv, BooksFiled
<1> HIDE DEF h
<1> QED
  BY <1>1, <1>3, <1>5, <1>6 DEF Inputs, h

LEMMA SignalQualityIs ==
    ASSUME NEW h, Inputs(h), \A p \in h.trades : p.n = 1
    PROVE  signal_quality(h) \in 0 .. 100
<1>1. CASE h.generated = {}
  BY <1>1 DEF signal_quality
<1>2. CASE h.generated # {}
  <2> DEFINE T == h.trades
             G == h.generated
             k == [p \in T |-> p.sig]
             K == {k[p] : p \in T}
  <2>1. IsFiniteSet(T) /\ IsFiniteSet(G) /\ K \in SUBSET G
    BY DEF Inputs
  <2>2. \A p, q \in T : k[p] = k[q] => p = q
    BY DEF Inputs
  <2> HIDE DEF T, G, k
  <2>3. (\A p, q \in T : k[p] = k[q] => p = q) => Cardinality({k[p] : p \in T}) = Cardinality(T)
    BY <2>1, FiniteImage
  <2>4. Cardinality(K) = Cardinality(T)
    BY <2>2, <2>3
  <2> HIDE DEF K
  <2>5. Cardinality(T) <= Cardinality(G)
    BY <2>1, <2>4, FS_Subset
  <2>6. Cardinality(T) \in Nat /\ Cardinality(G) \in Nat
    BY <2>1, FS_CardinalityType
  <2>7. Cardinality(G) # 0
    BY <1>2, <2>1, FS_EmptySet DEF G
  <2>8. (Cardinality(T) * 100) \div Cardinality(G) \in 0 .. 100
    BY <2>5, <2>6, <2>7, DivOfPart
  <2> QED
    BY <1>2, <2>8 DEF signal_quality, T, G
<1> QED
  BY <1>1, <1>2

LEMMA SumValuesNatural ==
    ASSUME NEW f, IsFiniteSet(DOMAIN f), \A x \in DOMAIN f : f[x] \in Nat
    PROVE  SumValues(f) \in Nat
BY SumOfNatural, SumValuesIs

LEMMA TradeCount ==
    ASSUME NEW h, Inputs(h), h.trades # {}
    PROVE  Cardinality(h.trades) \in Nat \ {0}
BY FS_CardinalityType, FS_EmptySet DEF Inputs

(* An average penalty below a ceiling.                                       *)
LEMMA PenaltyIs ==
    ASSUME NEW c \in Nat
    PROVE  Max({0, 100 - c}) \in 0 .. 100
<1>1. Max({0, 100 - c}) = IF 0 >= 100 - c THEN 0 ELSE 100 - c
  BY MaxOfTwo
<1> QED
  BY <1>1

LEMMA ExecutionQualityIs ==
    ASSUME NEW h, Inputs(h)
    PROVE  execution_quality(h) \in 0 .. 100
<1>1. CASE h.trades = {}
  BY <1>1 DEF execution_quality
<1>2. CASE h.trades # {}
  <2> DEFINE T == h.trades
             cost == [p \in T |-> (10000 * p.slip) \div Signal(p).price]
             bps == SumValues(cost) \div Cardinality(T)
  <2>1. ASSUME NEW p \in T PROVE cost[p] \in Nat
    <3>1. 10000 * p.slip \in Nat /\ Signal(p).price \in Nat \ {0}
      BY DEF Inputs
    <3>2. (10000 * p.slip) \div Signal(p).price \in Nat
      BY <3>1, DivNatural
    <3> QED
      BY <3>2
  <2>2. IsFiniteSet(T) /\ DOMAIN cost = T
    BY DEF Inputs
  <2>3. Cardinality(T) \in Nat \ {0}
    BY <1>2, TradeCount
  <2>4. execution_quality(h) = Max({0, 100 - 2 * bps})
    BY <1>2 DEF execution_quality
  <2> HIDE DEF cost
  <2>5. SumValues(cost) \in Nat
    BY <2>1, <2>2, SumValuesNatural
  <2>6. bps \in Nat
    BY <2>3, <2>5, DivNatural
  <2> HIDE DEF bps
  <2>7. 2 * bps \in Nat
    BY <2>6
  <2> QED
    BY <2>4, <2>7, PenaltyIs
<1> QED
  BY <1>1, <1>2

LEMMA SlippageCostIs ==
    ASSUME NEW h, Inputs(h)
    PROVE  slippage_cost(h) \in 0 .. 100
<1>1. CASE h.trades = {}
  BY <1>1 DEF slippage_cost
<1>2. CASE h.trades # {}
  <2> DEFINE T == h.trades
             part == [p \in T |-> (50000 * p.slip) \div Entry(p)]
             cost == SumValues(part) \div Cardinality(T)
  <2>1. ASSUME NEW p \in T PROVE part[p] \in Nat
    <3>1. 50000 * p.slip \in Nat /\ Entry(p) \in Nat \ {0}
      BY DEF Inputs, Entry
    <3>2. (50000 * p.slip) \div Entry(p) \in Nat
      BY <3>1, DivNatural
    <3> QED
      BY <3>2
  <2>2. IsFiniteSet(T) /\ DOMAIN part = T
    BY DEF Inputs
  <2>3. Cardinality(T) \in Nat \ {0}
    BY <1>2, TradeCount
  <2>4. slippage_cost(h) = Max({0, 100 - cost})
    BY <1>2 DEF slippage_cost
  <2> HIDE DEF part
  <2>5. SumValues(part) \in Nat
    BY <2>1, <2>2, SumValuesNatural
  <2>6. cost \in Nat
    BY <2>3, <2>5, DivNatural
  <2> HIDE DEF cost
  <2> QED
    BY <2>4, <2>6, PenaltyIs
<1> QED
  BY <1>1, <1>2

LEMMA PnlStabilityIs ==
    ASSUME NEW h, Inputs(h)
    PROVE  pnl_stability(h) \in 0 .. 100
<1>1. CASE h.trades = {}
  BY <1>1 DEF pnl_stability
<1>2. CASE h.trades # {}
  <2> DEFINE T == h.trades
             wins == {p \in T : p.pnl > 0}
             losers == {q \in T : q.pnl < 0}
             won == [p \in wins |-> p.pnl]
             lost == [p \in losers |-> p.pnl]
             owed == [p \in losers |-> -p.pnl]
             profit == SumValues(won)
             loss == -SumValues(lost)
             factor == IF loss = 0 THEN 200 ELSE Min({200, (100 * profit) \div loss})
             share == (60 * Cardinality(wins)) \div Cardinality(T)
             score == share + (20 * factor) \div 100
  <2>1. pnl_stability(h) = Min({100, score})
    BY <1>2 DEF pnl_stability
  <2>2. \A p \in T : p.pnl \in Int
    BY DEF Inputs
  <2>3. IsFiniteSet(T) /\ Cardinality(T) \in Nat \ {0}
    BY <1>2, TradeCount DEF Inputs
  <2>4. IsFiniteSet(wins) /\ IsFiniteSet(losers) /\ Cardinality(wins) \in Nat
    <3>1. IsFiniteSet(wins) /\ IsFiniteSet(losers)
      BY <2>3, FS_Subset
    <3> QED
      BY <3>1, FS_CardinalityType
  <2>5. /\ DOMAIN won = wins /\ \A p \in wins : won[p] \in Nat
        /\ DOMAIN lost = losers /\ \A p \in losers : lost[p] \in Int /\ lost[p] < 0
    BY <2>2
  <2> HIDE DEF T, wins, losers, won, lost
  <2>6. profit \in Nat
    BY <2>4, <2>5, SumValuesNatural
  <2>7. loss \in Nat
    <3>1. \A p \in losers : lost[p] \in Int
      BY <2>5
    <3> DEFINE zero == [p \in losers |-> 0]
    <3>2. \A p \in losers : lost[p] \in Int /\ zero[p] \in Int /\ lost[p] <= zero[p]
      BY <2>5
    <3>3. \A p \in losers : zero[p] = IF p \in {} THEN 1 ELSE 0
      OBVIOUS
    <3> HIDE DEF zero
    <3>4. SumOf(lost, losers) <= SumOf(zero, losers)
      BY <2>4, <3>2, SumOfMonotone
    <3>5. SumOf(zero, losers) = Cardinality({})
      BY <2>4, <3>3, SumOfOnes
    <3>6. Cardinality({}) = 0
      BY FS_EmptySet
    <3>7. SumOf(lost, losers) \in Int
      BY <2>4, <3>1, SumOfInteger
    <3>8. SumValues(lost) = SumOf(lost, losers)
      BY <2>5, SumValuesIs
    <3> QED
      BY <3>4, <3>5, <3>6, <3>7, <3>8
  <2> HIDE DEF profit, loss
  <2>8. factor \in Nat
    <3>1. CASE loss = 0
      BY <3>1
    <3>2. CASE loss # 0
      <4>1. 100 * profit \in Nat /\ loss \in Nat \ {0}
        BY <2>6, <2>7, <3>2
      <4>2. (100 * profit) \div loss \in Nat
        BY <4>1, DivNatural
      <4> DEFINE d == (100 * profit) \div loss
      <4>3. d \in Nat /\ d \in Int
        BY <4>2
      <4> HIDE DEF d
      <4>4. Min({200, d}) \in {200, d}
        BY <4>3, MinOfTwo
      <4>5. Min({200, d}) \in Nat
        BY <4>3, <4>4
      <4> QED
        BY <3>2, <4>5 DEF d
    <3> QED
      BY <3>1, <3>2
  <2>9. share \in Nat
    <3>1. 60 * Cardinality(wins) \in Nat
      BY <2>4
    <3> QED
      BY <2>3, <3>1, DivNatural
  <2> HIDE DEF factor, share
  <2>10. score \in Nat /\ score \in Int
    BY <2>8, <2>9
  <2> HIDE DEF score
  <2>11. Min({100, score}) \in {100, score} /\ Min({100, score}) <= 100
    BY <2>10, MinOfTwo
  <2> QED
    BY <2>1, <2>10, <2>11
<1> QED
  BY <1>1, <1>2

LEMMA AverageOfFour ==
    ASSUME NEW a \in Int, NEW b \in Int, NEW c \in Int, NEW d \in Int
    PROVE  /\ Min({a, b, c, d}) <= (a + b + c + d) \div 4
           /\ (a + b + c + d) \div 4 <= Max({a, b, c, d})
<1> DEFINE S == {a, b, c, d}
<1>1. \E x \in S : \A y \in S : x =< y
  <2>1. \/ a <= b /\ a <= c /\ a <= d
        \/ b <= a /\ b <= c /\ b <= d
        \/ c <= a /\ c <= b /\ c <= d
        \/ d <= a /\ d <= b /\ d <= c
    OBVIOUS
  <2> QED
    BY <2>1
<1>2. \E x \in S : \A y \in S : x >= y
  <2>1. \/ a >= b /\ a >= c /\ a >= d
        \/ b >= a /\ b >= c /\ b >= d
        \/ c >= a /\ c >= b /\ c >= d
        \/ d >= a /\ d >= b /\ d >= c
    OBVIOUS
  <2> QED
    BY <2>1
<1>3. Min(S) \in S /\ \A y \in S : Min(S) <= y
  BY <1>1 DEF Min
<1>4. Max(S) \in S /\ \A y \in S : Max(S) >= y
  BY <1>2 DEF Max
<1>5. /\ Min(S) \in Int /\ Min(S) <= a /\ Min(S) <= b /\ Min(S) <= c /\ Min(S) <= d
      /\ Max(S) \in Int /\ Max(S) >= a /\ Max(S) >= b /\ Max(S) >= c /\ Max(S) >= d
  BY <1>3, <1>4
<1> HIDE DEF S
<1>6. /\ 4 * Min(S) <= a + b + c + d /\ a + b + c + d <= 4 * Max(S)
  BY <1>5
<1> QED
  BY <1>5, <1>6 DEF S

LEMMA HealthBounds ==
    ASSUME BooksInv, NEW s, NEW f, NEW t
    PROVE  HealthIsBounded(HealthInputs(s, f, t))
<1> DEFINE h == HealthInputs(s, f, t)
           a == signal_quality(h)
           b == execution_quality(h)
           c == pnl_stability(h)
           d == slippage_cost(h)
<1>1. Inputs(h)
  BY HealthInputsAre
<1> HIDE DEF h
<1> SUFFICES ASSUME \A p \in h.trades : p.n = 1
             PROVE  /\ {a, b, c, d} \subseteq 0 .. 100
                    /\ Min({a, b, c, d}) <= health_score(h)
                    /\ health_score(h) <= Max({a, b, c, d})
  BY DEF HealthIsBounded, h
<1>2. a \in 0 .. 100
  BY <1>1, SignalQualityIs
<1>3. b \in 0 .. 100
  BY <1>1, ExecutionQualityIs
<1>4. c \in 0 .. 100
  BY <1>1, PnlStabilityIs
<1>5. d \in 0 .. 100
  BY <1>1, SlippageCostIs
<1>6. health_score(h) = (a + b + c + d) \div 4
  BY DEF health_score
<1> HIDE DEF a, b, c, d
<1>7. {a, b, c, d} \subseteq 0 .. 100
  BY <1>2, <1>3, <1>4, <1>5
<1>8. a \in Int /\ b \in Int /\ c \in Int /\ d \in Int
  BY <1>2, <1>3, <1>4, <1>5
<1>9. /\ Min({a, b, c, d}) <= (a + b + c + d) \div 4
      /\ (a + b + c + d) \div 4 <= Max({a, b, c, d})
  BY <1>8, AverageOfFour
<1> QED
  BY <1>6, <1>7, <1>9

LEMMA LivePositionsAre ==
    ASSUME BooksInv, NEW s, NEW f, NEW t
    PROVE  LiveIsOwn(s, f, t)
<1> SUFFICES ASSUME SignalsOf(s, f, t) # {}
             PROVE  reality_gap(s, f, t).live
                      = ModeMetrics({p \in get_closed_between(f, t) : Signal(p).strat = s})
  BY DEF LiveIsOwn
<1>1. ASSUME NEW p \in get_closed_between(f, t)
      PROVE  p.sig \in SignalsOf(s, f, t) <=> Signal(p).strat = s
  <2>1. /\ p.sig \in books.signals
        /\ f <= SignalTable[p.sig].day /\ SignalTable[p.sig].day <= t
    BY DEF get_closed_between, Signal, BooksInv, BooksFiled
  <2> QED
    BY <2>1 DEF SignalsOf, Signal
<1>2. {p \in get_closed_between(f, t) : p.sig \in SignalsOf(s, f, t)}
        = {p \in get_closed_between(f, t) : Signal(p).strat = s}
  BY <1>1
<1>3. fetch_live_positions(s, f, t)
        = {p \in get_closed_between(f, t) : p.sig \in SignalsOf(s, f, t)}
  BY DEF fetch_live_positions
<1>4. reality_gap(s, f, t).live = ModeMetrics(fetch_live_positions(s, f, t))
  BY DEF reality_gap
<1> QED
  BY <1>2, <1>3, <1>4

LEMMA UnscoredStrategy ==
    ASSUME NEW s, NEW f, NEW t, s \notin DOMAIN get_health(f, t)
    PROVE  HealthInputs(s, f, t).trades = {}
<1>1. DOMAIN get_health(f, t)
        = {SignalTable[g].strat : g \in {x \in books.signals : /\ f <= SignalTable[x].day
                                                               /\ SignalTable[x].day <= t}}
  BY DEF get_health
<1>2. SignalsOf(s, f, t) = {}
  BY <1>1 DEF SignalsOf
<1> QED
  BY <1>2 DEF HealthInputs

(* Percentiles of a sorted list are entries of it, in order.                 *)
LEMMA LatenciesAre ==
    ASSUME BooksInv, books.signals # {}
    PROVE  /\ signal_latencies \in Seq(Int) /\ signal_latencies # << >>
           /\ \A i, j \in 1 .. Len(signal_latencies) :
                  i < j => signal_latencies[i] <= signal_latencies[j]
<1> DEFINE S == books.signals
           n == Cardinality(S)
           latency == [g \in S |-> Max({0, SignalTable[g].latency})]
           order == SortedBy(S, latency)
           sorted == [i \in DOMAIN order |-> latency[order[i]]]
<1>1. signal_latencies = sorted
  BY DEF signal_latencies
<1>2. IsFiniteSet(S) /\ S \subseteq DOMAIN SignalTable
  BY DEF BooksInv, BooksFinite, BooksType
<1>3. ASSUME NEW g \in S PROVE latency[g] \in Int
  <2>1. SignalTable[g].latency \in Int
    BY <1>2, ReportAssumption
  <2>2. Max({0, SignalTable[g].latency}) \in Int
    BY <2>1, MaxOfTwo
  <2> QED
    BY <2>2
<1> HIDE DEF latency
<1>4. n \in Nat /\ n # 0
  BY <1>2, FS_CardinalityType, FS_EmptySet
<1> HIDE DEF S
<1>5. Enumerates(order, S) /\ Sorted(order, latency)
  BY <1>2, <1>3, SortedByIs
<1>6. /\ DOMAIN order = 1 .. n /\ \A i \in 1 .. n : order[i] \in S
      /\ \A i, j \in 1 .. n : i < j => latency[order[i]] <= latency[order[j]]
  BY <1>5 DEF Enumerates, Sorted
<1> HIDE DEF order, n
<1>7. sorted \in [1 .. n -> Int]
  BY <1>3, <1>6
<1>8. \A i, j \in 1 .. n : i < j => sorted[i] <= sorted[j]
  BY <1>6
<1> HIDE DEF sorted
<1>9. sorted \in Seq(Int)
  BY <1>4, <1>7, SeqDef
<1>10. Len(sorted) = n
  BY <1>4, <1>7, <1>9, LenProperties
<1>11. sorted # << >>
  BY <1>4, <1>10
<1> QED
  BY <1>1, <1>8, <1>9, <1>10, <1>11

LEMMA PercentilesOf ==
    ASSUME NEW q \in Seq(Int), q # << >>,
           \A i, j \in 1 .. Len(q) : i < j => q[i] <= q[j]
    PROVE  PercentilesAreOrdered(q)
<1> DEFINE n == Len(q)
           last == n - 1
           at(pct) == Min({(n * pct) \div 100, last}) + 1
<1>1. n \in Nat /\ n # 0 /\ DOMAIN q = 1 .. n
  BY EmptySeq, LenProperties
<1>2. \A i \in 1 .. n : q[i] \in Int
  BY <1>1, ElementOfSeq
<1>3. \A pct : latency_percentile(q, pct) = q[at(pct)]
  BY DEF latency_percentile
<1>4. ASSUME NEW i \in 1 .. n, NEW j \in 1 .. n, i <= j PROVE q[i] <= q[j]
  BY <1>1, <1>2, <1>4
<1> HIDE DEF n
<1>5. last \in Nat /\ last \in Int /\ last = n - 1
  BY <1>1
<1> HIDE DEF last
<1>6. ASSUME NEW a \in Int, NEW b \in Int, a <= b PROVE Min({a, last}) <= Min({b, last})
  <2>1. /\ Min({a, last}) \in {a, last}
        /\ Min({a, last}) <= a /\ Min({a, last}) <= last
    BY <1>5, MinOfTwo
  <2>2. Min({b, last}) \in {b, last}
    BY <1>5, MinOfTwo
  <2> QED
    BY <1>5, <1>6, <2>1, <2>2
<1>7. ASSUME NEW pct \in Nat PROVE at(pct) \in 1 .. n
  <2> DEFINE i == (n * pct) \div 100
  <2>1. n * pct \in Nat
    BY <1>1
  <2>2. i \in Nat /\ i \in Int
    BY <2>1
  <2> HIDE DEF i
  <2>3. Min({i, last}) \in {i, last} /\ Min({i, last}) <= last
    BY <1>5, <2>2, MinOfTwo
  <2> QED
    BY <1>1, <1>5, <2>2, <2>3 DEF i
<1>8. /\ (n * 50) \div 100 \in Int /\ (n * 95) \div 100 \in Int /\ (n * 99) \div 100 \in Int
      /\ (n * 50) \div 100 <= (n * 95) \div 100 /\ (n * 95) \div 100 <= (n * 99) \div 100
  BY <1>1
<1>9. at(50) <= at(95) /\ at(95) <= at(99)
  <2> DEFINE a == (n * 50) \div 100
             b == (n * 95) \div 100
             c == (n * 99) \div 100
  <2> HIDE DEF a, b, c
  <2>1. a \in Int /\ b \in Int /\ c \in Int /\ a <= b /\ b <= c
    BY <1>8 DEF a, b, c
  <2>2. Min({a, last}) <= Min({b, last}) /\ Min({b, last}) <= Min({c, last})
    BY <1>6, <2>1
  <2>3. Min({a, last}) \in Int /\ Min({b, last}) \in Int /\ Min({c, last}) \in Int
    BY <1>5, <2>1, MinOfTwo
  <2> QED
    BY <2>2, <2>3 DEF a, b, c
<1>10. at(50) \in 1 .. n /\ at(95) \in 1 .. n /\ at(99) \in 1 .. n
  BY <1>7
<1> HIDE DEF at
<1>11. q[at(50)] <= q[at(95)] /\ q[at(95)] <= q[at(99)]
  BY <1>4, <1>9, <1>10
<1>12. q[at(99)] <= q[n]
  BY <1>1, <1>4, <1>10
<1> QED
  BY <1>3, <1>11, <1>12 DEF PercentilesAreOrdered, Last, n

LEMMA ValidationAlways == BooksInv => ValidationIsConsistent
<1> SUFFICES ASSUME BooksInv PROVE ValidationIsConsistent
  OBVIOUS
<1>1. ASSUME NEW f \in ReportDays, NEW t \in ReportDays, NEW s \in Strategies
      PROVE  /\ SlippageAddsUp(slippage_aggregate(slippage_samples("COMBINED", s, f, t)))
             /\ HealthIsBounded(HealthInputs(s, f, t))
             /\ s \notin DOMAIN get_health(f, t) => HealthInputs(s, f, t).trades = {}
             /\ LiveIsOwn(s, f, t)
  <2>1. SlippageAddsUp(slippage_aggregate(slippage_samples("COMBINED", s, f, t)))
    BY SamplesAre, SlippageSums
  <2> QED
    BY <2>1, HealthBounds, UnscoredStrategy, LivePositionsAre
<1>2. books.signals # {} => PercentilesAreOrdered(signal_latencies)
  BY LatenciesAre, PercentilesOf
<1> QED
  BY <1>1, <1>2 DEF ValidationIsConsistent

(* All reports over the same books tell the same story, whatever documents   *)
(* the trading modes have stored and in whatever order: the analytics        *)
(* engines agree with one another and the validation reports with the books. *)
THEOREM ReportsAlwaysReconcile == ReportSpec => []ReportsReconcile
<1>1. BooksInv => ReportsReconcile
  BY AttributionAlways, ValidationAlways DEF ReportsReconcile
<1> QED
  BY <1>1, BooksInvariant, PTL
-----------------------------------------------------------------------------
(* The statistics of one backtest.  The modules of the code fold the same    *)
(* trades each in its own way.  Every fold is shown to yield a quantity of   *)
(* one list, that of the running totals: its highest, lowest and last level  *)
(* and its deepest fall.  Every count is a sum of weights of the trades,     *)
(* which any key splits.                                                     *)

(* The trades a backtest may record.                                         *)
BacktestTrade ==
    {t \in [sym : {k.sym : k \in TradeKinds}, side : {"LONG", "SHORT"}, day : Int,
            entry : Int, exit : Int, reason : {k.reason : k \in TradeKinds},
            pnl : Int, orb : Nat, prob : Int] :
        /\ t.orb < 99900
        /\ t.reason = "NO_BREAKOUT" => t.pnl = 0
        /\ t.reason # "NO_BREAKOUT" => t.entry >= 240
        /\ t.reason = "SL_HIT" => 240 <= t.exit /\ t.exit <= 585}

LEMMA RecordIs ==
    ASSUME NEW t \in BacktestTrade
    PROVE  /\ t.pnl \in Int /\ t.day \in Int /\ t.entry \in Int /\ t.exit \in Int
           /\ t.prob \in Int /\ t.orb \in Nat /\ t.orb < 99900
           /\ t.side \in {"LONG", "SHORT"}
           /\ t.reason = "NO_BREAKOUT" => t.pnl = 0
           /\ t.reason # "NO_BREAKOUT" => t.entry >= 240
           /\ t.reason = "SL_HIT" => 240 <= t.exit /\ t.exit <= 585
BY DEF BacktestTrade

DrawdownState == [equity : Int, peak : Int, dd : Int, dd_peak : Int]

LEMMA DrawdownStepType ==
    ASSUME NEW x \in DrawdownState, NEW e \in Int
    PROVE  DrawdownStep(x, e) \in DrawdownState
BY MaxIsInt DEF DrawdownState, DrawdownStep

DrawdownsTo(iter, s) ==
    iter = [T \in SUBSET DOMAIN s |->
              IF T = {} THEN [equity |-> 0, peak |-> 0, dd |-> 0, dd_peak |-> 0] ELSE DrawdownStep(iter[T \ {Max(T)}], s[Max(T)])]

DrawdownsOf(f, s, n) ==
    /\ f \in [0 .. n -> DrawdownState] /\ f[0] = [equity |-> 0, peak |-> 0, dd |-> 0, dd_peak |-> 0]
    /\ \A k \in 0 .. n - 1 : f[k + 1] = DrawdownStep(f[k], s[k + 1])

(* The metrics engine folds its drawdown position by position. *)
LEMMA DrawdownsExist ==
    ASSUME NEW n \in Nat, NEW s \in [1 .. n -> Int]
    PROVE  \E f : /\ DrawdownsOf(f, s, n)
                 /\ FoldLeft(DrawdownStep, [equity |-> 0, peak |-> 0, dd |-> 0, dd_peak |-> 0], s) = f[n]
<1> DEFINE base == [equity |-> 0, peak |-> 0, dd |-> 0, dd_peak |-> 0]
           step == [p \in (1 .. n) \X DrawdownState |-> DrawdownStep(p[2], s[p[1]])]
<1>0. base \in DrawdownState
  BY DEF DrawdownState
<1>1. /\ step \in [(1 .. n) \X DrawdownState -> DrawdownState]
      /\ \A i \in 1 .. n, x \in DrawdownState : step[<<i, x>>] = DrawdownStep(x, s[i])
  <2>1. ASSUME NEW i \in 1 .. n, NEW x \in DrawdownState PROVE DrawdownStep(x, s[i]) \in DrawdownState
    BY DrawdownStepType
  <2> QED
    BY <2>1
<1> HIDE DEF step, base
<1>2. PICK g \in [SUBSET (1 .. n) -> DrawdownState] : Folds(g, n, base, step)
  BY <1>0, <1>1, FoldExists
<1>3. DrawdownsTo(g, s)
  <2>1. ASSUME NEW T \in SUBSET (1 .. n), T # {}
        PROVE  g[T] = DrawdownStep(g[T \ {Max(T)}], s[Max(T)])
    <3>1. Max(T) \in T
      BY <2>1, MaxOfPart
    <3>2. Max(T) \in 1 .. n /\ g[T \ {Max(T)}] \in DrawdownState
      BY <3>1
    <3>3. g[T] = step[<<Max(T), g[T \ {Max(T)}]>>]
      BY <1>2, <2>1 DEF Folds
    <3> QED
      BY <1>1, <3>2, <3>3
  <2>2. g[{}] = base
    BY <1>2 DEF Folds
  <2> QED
    BY <2>1, <2>2 DEF DrawdownsTo, base
<1> DEFINE h == CHOOSE iter : DrawdownsTo(iter, s)
<1>4. DrawdownsTo(h, s)
  BY <1>3
<1>5. FoldLeft(DrawdownStep, [equity |-> 0, peak |-> 0, dd |-> 0, dd_peak |-> 0], s) = h[1 .. n]
  BY DEF FoldLeft, MapThenFoldSet, DrawdownsTo
<1> HIDE DEF h
<1>6. h[{}] = base /\ 1 .. 0 = {}
  BY <1>4 DEF DrawdownsTo, base
<1>7. ASSUME NEW k \in 0 .. n - 1 PROVE h[1 .. k + 1] = DrawdownStep(h[1 .. k], s[k + 1])
  <2>1. 1 .. k + 1 \in SUBSET DOMAIN s /\ 1 .. k + 1 # {}
    <3>1. 1 .. k + 1 \subseteq 1 .. n /\ k + 1 \in 1 .. k + 1
      OBVIOUS
    <3> QED
      BY <3>1
  <2>2. Max(1 .. k + 1) = k + 1 /\ (1 .. k + 1) \ {k + 1} = 1 .. k
    <3>1. k + 1 \in Nat /\ k + 1 # 0 /\ (k + 1) - 1 = k
      OBVIOUS
    <3> QED
      BY <3>1, MaxOfPrefix
  <2> QED
    BY <1>4, <2>1, <2>2 DEF DrawdownsTo
<1> DEFINE f == [k \in 0 .. n |-> h[1 .. k]]
<1>8. f[0] = base /\ \A k \in 0 .. n - 1 : f[k + 1] = DrawdownStep(f[k], s[k + 1])
  BY <1>6, <1>7
<1>9. \A k \in 0 .. n : f[k] \in DrawdownState
  <2> DEFINE G == {k \in 0 .. n : f[k] \in DrawdownState}
  <2>1. 0 \in G
    BY <1>0, <1>8
  <2>2. ASSUME NEW k \in 0 .. n, k + 1 <= n, k \in G PROVE k + 1 \in G
    <3>1. k \in 0 .. n - 1 /\ k + 1 \in 1 .. n /\ k + 1 \in 0 .. n
      BY <2>2
    <3>2. f[k + 1] = DrawdownStep(f[k], s[k + 1])
      BY <1>8, <3>1
    <3>3. f[k] \in DrawdownState /\ s[k + 1] \in Int
      BY <2>2, <3>1
    <3> HIDE DEF f
    <3> QED
      BY <3>1, <3>2, <3>3, DrawdownStepType
  <2> HIDE DEF G
  <2>3. \A k \in 0 .. n : k \in G
    BY <2>1, <2>2, UpTo
  <2> QED
    BY <2>3 DEF G
<1>10. f \in [0 .. n -> DrawdownState] /\ f[n] = h[1 .. n]
  BY <1>9
<1> HIDE DEF f
<1> QED
  BY <1>5, <1>8, <1>10 DEF DrawdownsOf, base

FallState == [peak : Int, dd : Int]

LEMMA FallStepType ==
    ASSUME NEW x \in FallState, NEW e \in Int
    PROVE  FallStep(x, e) \in FallState
BY MaxIsInt DEF FallState, FallStep

FallsTo(iter, c, s) ==
    iter = [T \in SUBSET DOMAIN s |->
              IF T = {} THEN [peak |-> c, dd |-> 0] ELSE FallStep(iter[T \ {Max(T)}], s[Max(T)])]

FallsOf(f, c, s, n) ==
    /\ f \in [0 .. n -> FallState] /\ f[0] = [peak |-> c, dd |-> 0]
    /\ \A k \in 0 .. n - 1 : f[k + 1] = FallStep(f[k], s[k + 1])

(* The analytics helper, from the value the peak starts at. *)
LEMMA FallsExist ==
    ASSUME NEW n \in Nat, NEW s \in [1 .. n -> Int], NEW c \in Int
    PROVE  \E f : /\ FallsOf(f, c, s, n)
                 /\ FoldLeft(FallStep, [peak |-> c, dd |-> 0], s) = f[n]
<1> DEFINE base == [peak |-> c, dd |-> 0]
           step == [p \in (1 .. n) \X FallState |-> FallStep(p[2], s[p[1]])]
<1>0. base \in FallState
  BY DEF FallState
<1>1. /\ step \in [(1 .. n) \X FallState -> FallState]
      /\ \A i \in 1 .. n, x \in FallState : step[<<i, x>>] = FallStep(x, s[i])
  <2>1. ASSUME NEW i \in 1 .. n, NEW x \in FallState PROVE FallStep(x, s[i]) \in FallState
    BY FallStepType
  <2> QED
    BY <2>1
<1> HIDE DEF step, base
<1>2. PICK g \in [SUBSET (1 .. n) -> FallState] : Folds(g, n, base, step)
  BY <1>0, <1>1, FoldExists
<1>3. FallsTo(g, c, s)
  <2>1. ASSUME NEW T \in SUBSET (1 .. n), T # {}
        PROVE  g[T] = FallStep(g[T \ {Max(T)}], s[Max(T)])
    <3>1. Max(T) \in T
      BY <2>1, MaxOfPart
    <3>2. Max(T) \in 1 .. n /\ g[T \ {Max(T)}] \in FallState
      BY <3>1
    <3>3. g[T] = step[<<Max(T), g[T \ {Max(T)}]>>]
      BY <1>2, <2>1 DEF Folds
    <3> QED
      BY <1>1, <3>2, <3>3
  <2>2. g[{}] = base
    BY <1>2 DEF Folds
  <2> QED
    BY <2>1, <2>2 DEF FallsTo, base
<1> DEFINE h == CHOOSE iter : FallsTo(iter, c, s)
<1>4. FallsTo(h, c, s)
  BY <1>3
<1>5. FoldLeft(FallStep, [peak |-> c, dd |-> 0], s) = h[1 .. n]
  BY DEF FoldLeft, MapThenFoldSet, FallsTo
<1> HIDE DEF h
<1>6. h[{}] = base /\ 1 .. 0 = {}
  BY <1>4 DEF FallsTo, base
<1>7. ASSUME NEW k \in 0 .. n - 1 PROVE h[1 .. k + 1] = FallStep(h[1 .. k], s[k + 1])
  <2>1. 1 .. k + 1 \in SUBSET DOMAIN s /\ 1 .. k + 1 # {}
    <3>1. 1 .. k + 1 \subseteq 1 .. n /\ k + 1 \in 1 .. k + 1
      OBVIOUS
    <3> QED
      BY <3>1
  <2>2. Max(1 .. k + 1) = k + 1 /\ (1 .. k + 1) \ {k + 1} = 1 .. k
    <3>1. k + 1 \in Nat /\ k + 1 # 0 /\ (k + 1) - 1 = k
      OBVIOUS
    <3> QED
      BY <3>1, MaxOfPrefix
  <2> QED
    BY <1>4, <2>1, <2>2 DEF FallsTo
<1> DEFINE f == [k \in 0 .. n |-> h[1 .. k]]
<1>8. f[0] = base /\ \A k \in 0 .. n - 1 : f[k + 1] = FallStep(f[k], s[k + 1])
  BY <1>6, <1>7
<1>9. \A k \in 0 .. n : f[k] \in FallState
  <2> DEFINE G == {k \in 0 .. n : f[k] \in FallState}
  <2>1. 0 \in G
    BY <1>0, <1>8
  <2>2. ASSUME NEW k \in 0 .. n, k + 1 <= n, k \in G PROVE k + 1 \in G
    <3>1. k \in 0 .. n - 1 /\ k + 1 \in 1 .. n /\ k + 1 \in 0 .. n
      BY <2>2
    <3>2. f[k + 1] = FallStep(f[k], s[k + 1])
      BY <1>8, <3>1
    <3>3. f[k] \in FallState /\ s[k + 1] \in Int
      BY <2>2, <3>1
    <3> HIDE DEF f
    <3> QED
      BY <3>1, <3>2, <3>3, FallStepType
  <2> HIDE DEF G
  <2>3. \A k \in 0 .. n : k \in G
    BY <2>1, <2>2, UpTo
  <2> QED
    BY <2>3 DEF G
<1>10. f \in [0 .. n -> FallState] /\ f[n] = h[1 .. n]
  BY <1>9
<1> HIDE DEF f
<1> QED
  BY <1>5, <1>8, <1>10 DEF FallsOf, base

StockState == [equity : Int, peak : Int, dd : Int]

LEMMA StockStepType ==
    ASSUME NEW x \in StockState, NEW e \in Int
    PROVE  StockStep(x, e) \in StockState
BY MaxIsInt DEF StockState, StockStep

StockStepsTo(iter, s) ==
    iter = [T \in SUBSET DOMAIN s |->
              IF T = {} THEN [equity |-> 0, peak |-> 0, dd |-> 0] ELSE StockStep(iter[T \ {Max(T)}], s[Max(T)])]

StockStepsOf(f, s, n) ==
    /\ f \in [0 .. n -> StockState] /\ f[0] = [equity |-> 0, peak |-> 0, dd |-> 0]
    /\ \A k \in 0 .. n - 1 : f[k + 1] = StockStep(f[k], s[k + 1])

(* The stock analytics. *)
LEMMA StockStepsExist ==
    ASSUME NEW n \in Nat, NEW s \in [1 .. n -> Int]
    PROVE  \E f : /\ StockStepsOf(f, s, n)
                 /\ FoldLeft(StockStep, [equity |-> 0, peak |-> 0, dd |-> 0], s) = f[n]
<1> DEFINE base == [equity |-> 0, peak |-> 0, dd |-> 0]
           step == [p \in (1 .. n) \X StockState |-> StockStep(p[2], s[p[1]])]
<1>0. base \in StockState
  BY DEF StockState
<1>1. /\ step \in [(1 .. n) \X StockState -> StockState]
      /\ \A i \in 1 .. n, x \in StockState : step[<<i, x>>] = StockStep(x, s[i])
  <2>1. ASSUME NEW i \in 1 .. n, NEW x \in StockState PROVE StockStep(x, s[i]) \in StockState
    BY StockStepType
  <2> QED
    BY <2>1
<1> HIDE DEF step, base
<1>2. PICK g \in [SUBSET (1 .. n) -> StockState] : Folds(g, n, base, step)
  BY <1>0, <1>1, FoldExists
<1>3. StockStepsTo(g, s)
  <2>1. ASSUME NEW T \in SUBSET (1 .. n), T # {}
        PROVE  g[T] = StockStep(g[T \ {Max(T)}], s[Max(T)])
    <3>1. Max(T) \in T
      BY <2>1, MaxOfPart
    <3>2. Max(T) \in 1 .. n /\ g[T \ {Max(T)}] \in StockState
      BY <3>1
    <3>3. g[T] = step[<<Max(T), g[T \ {Max(T)}]>>]
      BY <1>2, <2>1 DEF Folds
    <3> QED
      BY <1>1, <3>2, <3>3
  <2>2. g[{}] = base
    BY <1>2 DEF Folds
  <2> QED
    BY <2>1, <2>2 DEF StockStepsTo, base
<1> DEFINE h == CHOOSE iter : StockStepsTo(iter, s)
<1>4. StockStepsTo(h, s)
  BY <1>3
<1>5. FoldLeft(StockStep, [equity |-> 0, peak |-> 0, dd |-> 0], s) = h[1 .. n]
  BY DEF FoldLeft, MapThenFoldSet, StockStepsTo
<1> HIDE DEF h
<1>6. h[{}] = base /\ 1 .. 0 = {}
  BY <1>4 DEF StockStepsTo, base
<1>7. ASSUME NEW k \in 0 .. n - 1 PROVE h[1 .. k + 1] = StockStep(h[1 .. k], s[k + 1])
  <2>1. 1 .. k + 1 \in SUBSET DOMAIN s /\ 1 .. k + 1 # {}
    <3>1. 1 .. k + 1 \subseteq 1 .. n /\ k + 1 \in 1 .. k + 1
      OBVIOUS
    <3> QED
      BY <3>1
  <2>2. Max(1 .. k + 1) = k + 1 /\ (1 .. k + 1) \ {k + 1} = 1 .. k
    <3>1. k + 1 \in Nat /\ k + 1 # 0 /\ (k + 1) - 1 = k
      OBVIOUS
    <3> QED
      BY <3>1, MaxOfPrefix
  <2> QED
    BY <1>4, <2>1, <2>2 DEF StockStepsTo
<1> DEFINE f == [k \in 0 .. n |-> h[1 .. k]]
<1>8. f[0] = base /\ \A k \in 0 .. n - 1 : f[k + 1] = StockStep(f[k], s[k + 1])
  BY <1>6, <1>7
<1>9. \A k \in 0 .. n : f[k] \in StockState
  <2> DEFINE G == {k \in 0 .. n : f[k] \in StockState}
  <2>1. 0 \in G
    BY <1>0, <1>8
  <2>2. ASSUME NEW k \in 0 .. n, k + 1 <= n, k \in G PROVE k + 1 \in G
    <3>1. k \in 0 .. n - 1 /\ k + 1 \in 1 .. n /\ k + 1 \in 0 .. n
      BY <2>2
    <3>2. f[k + 1] = StockStep(f[k], s[k + 1])
      BY <1>8, <3>1
    <3>3. f[k] \in StockState /\ s[k + 1] \in Int
      BY <2>2, <3>1
    <3> HIDE DEF f
    <3> QED
      BY <3>1, <3>2, <3>3, StockStepType
  <2> HIDE DEF G
  <2>3. \A k \in 0 .. n : k \in G
    BY <2>1, <2>2, UpTo
  <2> QED
    BY <2>3 DEF G
<1>10. f \in [0 .. n -> StockState] /\ f[n] = h[1 .. n]
  BY <1>9
<1> HIDE DEF f
<1> QED
  BY <1>5, <1>8, <1>10 DEF StockStepsOf, base

SimState == [equity : Int, peak : Int, min_equity : Int, dd : Int,
             streak : Int, losses : Int]

LEMMA SimStepType ==
    ASSUME NEW x \in SimState, NEW e \in Int
    PROVE  SimStep(x, e) \in SimState
<1> DEFINE q == x.equity + e
           streak == IF e < 0 THEN x.streak + 1 ELSE 0
           fall == IF q > x.peak THEN 0 ELSE x.peak - q
<1>1. /\ q \in Int /\ streak \in Int /\ fall \in Int /\ x.peak \in Int
      /\ x.min_equity \in Int /\ x.dd \in Int /\ x.losses \in Int
  BY DEF SimState
<1> HIDE DEF q, streak, fall
<1>2. /\ Max({x.peak, q}) \in Int /\ Max({x.dd, fall}) \in Int
      /\ Max({x.losses, streak}) \in Int
  BY <1>1, MaxIsInt
<1>3. Min({x.min_equity, q}) \in Int
  BY <1>1, MinOfTwo
<1>4. SimStep(x, e) = [equity |-> q, peak |-> Max({x.peak, q}),
                       min_equity |-> Min({x.min_equity, q}), dd |-> Max({x.dd, fall}),
                       streak |-> streak, losses |-> Max({x.losses, streak})]
  BY DEF SimStep, q, streak, fall
<1> QED
  BY <1>1, <1>2, <1>3, <1>4 DEF SimState

SimStepsTo(iter, c, s) ==
    iter = [T \in SUBSET DOMAIN s |->
              IF T = {} THEN [equity |-> c, peak |-> c, min_equity |-> c,
      dd |-> 0, streak |-> 0, losses |-> 0] ELSE SimStep(iter[T \ {Max(T)}], s[Max(T)])]

SimStepsOf(f, c, s, n) ==
    /\ f \in [0 .. n -> SimState] /\ f[0] = [equity |-> c, peak |-> c, min_equity |-> c,
      dd |-> 0, streak |-> 0, losses |-> 0]
    /\ \A k \in 0 .. n - 1 : f[k + 1] = SimStep(f[k], s[k + 1])

(* The simulator, from the capital it starts with. *)
LEMMA SimStepsExist ==
    ASSUME NEW n \in Nat, NEW s \in [1 .. n -> Int], NEW c \in Int
    PROVE  \E f : /\ SimStepsOf(f, c, s, n)
                 /\ FoldLeft(SimStep, [equity |-> c, peak |-> c, min_equity |-> c,
      dd |-> 0, streak |-> 0, losses |-> 0], s) = f[n]
<1> DEFINE base == [equity |-> c, peak |-> c, min_equity |-> c,
      dd |-> 0, streak |-> 0, losses |-> 0]
           step == [p \in (1 .. n) \X SimState |-> SimStep(p[2], s[p[1]])]
<1>0. base \in SimState
  BY DEF SimState
<1>1. /\ step \in [(1 .. n) \X SimState -> SimState]
      /\ \A i \in 1 .. n, x \in SimState : step[<<i, x>>] = SimStep(x, s[i])
  <2>1. ASSUME NEW i \in 1 .. n, NEW x \in SimState PROVE SimStep(x, s[i]) \in SimState
    BY SimStepType
  <2> QED
    BY <2>1
<1> HIDE DEF step, base
<1>2. PICK g \in [SUBSET (1 .. n) -> SimState] : Folds(g, n, base, step)
  BY <1>0, <1>1, FoldExists
<1>3. SimStepsTo(g, c, s)
  <2>1. ASSUME NEW T \in SUBSET (1 .. n), T # {}
        PROVE  g[T] = SimStep(g[T \ {Max(T)}], s[Max(T)])
    <3>1. Max(T) \in T
      BY <2>1, MaxOfPart
    <3>2. Max(T) \in 1 .. n /\ g[T \ {Max(T)}] \in SimState
      BY <3>1
    <3>3. g[T] = step[<<Max(T), g[T \ {Max(T)}]>>]
      BY <1>2, <2>1 DEF Folds
    <3> QED
      BY <1>1, <3>2, <3>3
  <2>2. g[{}] = base
    BY <1>2 DEF Folds
  <2> QED
    BY <2>1, <2>2 DEF SimStepsTo, base
<1> DEFINE h == CHOOSE iter : SimStepsTo(iter, c, s)
<1>4. SimStepsTo(h, c, s)
  BY <1>3
<1>5. FoldLeft(SimStep, [equity |-> c, peak |-> c, min_equity |-> c,
      dd |-> 0, streak |-> 0, losses |-> 0], s) = h[1 .. n]
  BY DEF FoldLeft, MapThenFoldSet, SimStepsTo
<1> HIDE DEF h
<1>6. h[{}] = base /\ 1 .. 0 = {}
  BY <1>4 DEF SimStepsTo, base
<1>7. ASSUME NEW k \in 0 .. n - 1 PROVE h[1 .. k + 1] = SimStep(h[1 .. k], s[k + 1])
  <2>1. 1 .. k + 1 \in SUBSET DOMAIN s /\ 1 .. k + 1 # {}
    <3>1. 1 .. k + 1 \subseteq 1 .. n /\ k + 1 \in 1 .. k + 1
      OBVIOUS
    <3> QED
      BY <3>1
  <2>2. Max(1 .. k + 1) = k + 1 /\ (1 .. k + 1) \ {k + 1} = 1 .. k
    <3>1. k + 1 \in Nat /\ k + 1 # 0 /\ (k + 1) - 1 = k
      OBVIOUS
    <3> QED
      BY <3>1, MaxOfPrefix
  <2> QED
    BY <1>4, <2>1, <2>2 DEF SimStepsTo
<1> DEFINE f == [k \in 0 .. n |-> h[1 .. k]]
<1>8. f[0] = base /\ \A k \in 0 .. n - 1 : f[k + 1] = SimStep(f[k], s[k + 1])
  BY <1>6, <1>7
<1>9. \A k \in 0 .. n : f[k] \in SimState
  <2> DEFINE G == {k \in 0 .. n : f[k] \in SimState}
  <2>1. 0 \in G
    BY <1>0, <1>8
  <2>2. ASSUME NEW k \in 0 .. n, k + 1 <= n, k \in G PROVE k + 1 \in G
    <3>1. k \in 0 .. n - 1 /\ k + 1 \in 1 .. n /\ k + 1 \in 0 .. n
      BY <2>2
    <3>2. f[k + 1] = SimStep(f[k], s[k + 1])
      BY <1>8, <3>1
    <3>3. f[k] \in SimState /\ s[k + 1] \in Int
      BY <2>2, <3>1
    <3> HIDE DEF f
    <3> QED
      BY <3>1, <3>2, <3>3, SimStepType
  <2> HIDE DEF G
  <2>3. \A k \in 0 .. n : k \in G
    BY <2>1, <2>2, UpTo
  <2> QED
    BY <2>3 DEF G
<1>10. f \in [0 .. n -> SimState] /\ f[n] = h[1 .. n]
  BY <1>9
<1> HIDE DEF f
<1> QED
  BY <1>5, <1>8, <1>10 DEF SimStepsOf, base

StreakState == [w : Int, l : Int, wins : Int, losses : Int]

LEMMA StreakStepType ==
    ASSUME NEW x \in StreakState, NEW e \in BacktestTrade
    PROVE  StreakStep(x, e) \in StreakState
<1> DEFINE w == IF e.pnl > 0 THEN x.w + 1 ELSE 0
           l == IF e.pnl > 0 THEN 0 ELSE x.l + 1
<1>1. w \in Int /\ l \in Int /\ x.wins \in Int /\ x.losses \in Int
  <2>1. e.pnl \in Int
    BY RecordIs
  <2>2. x.w \in Int /\ x.l \in Int /\ x.wins \in Int /\ x.losses \in Int
    BY DEF StreakState
  <2> QED
    BY <2>1, <2>2
<1> HIDE DEF w, l
<1>2. Max({x.wins, w}) \in Int /\ Max({x.losses, l}) \in Int
  BY <1>1, MaxIsInt
<1>3. StreakStep(x, e) = [w |-> w, l |-> l, wins |-> Max({x.wins, w}), losses |-> Max({x.losses, l})]
  BY DEF StreakStep, w, l
<1> QED
  BY <1>1, <1>2, <1>3 DEF StreakState

StreaksTo(iter, s) ==
    iter = [T \in SUBSET DOMAIN s |->
              IF T = {} THEN [w |-> 0, l |-> 0, wins |-> 0, losses |-> 0] ELSE StreakStep(iter[T \ {Max(T)}], s[Max(T)])]

StreaksOf(f, s, n) ==
    /\ f \in [0 .. n -> StreakState] /\ f[0] = [w |-> 0, l |-> 0, wins |-> 0, losses |-> 0]
    /\ \A k \in 0 .. n - 1 : f[k + 1] = StreakStep(f[k], s[k + 1])

(* The streaks of the metrics engine. *)
LEMMA StreaksExist ==
    ASSUME NEW n \in Nat, NEW s \in [1 .. n -> BacktestTrade]
    PROVE  \E f : /\ StreaksOf(f, s, n)
                 /\ FoldLeft(StreakStep, [w |-> 0, l |-> 0, wins |-> 0, losses |-> 0], s) = f[n]
<1> DEFINE base == [w |-> 0, l |-> 0, wins |-> 0, losses |-> 0]
           step == [p \in (1 .. n) \X StreakState |-> StreakStep(p[2], s[p[1]])]
<1>0. base \in StreakState
  BY DEF StreakState
<1>1. /\ step \in [(1 .. n) \X StreakState -> StreakState]
      /\ \A i \in 1 .. n, x \in StreakState : step[<<i, x>>] = StreakStep(x, s[i])
  <2>1. ASSUME NEW i \in 1 .. n, NEW x \in StreakState PROVE StreakStep(x, s[i]) \in StreakState
    BY StreakStepType
  <2> QED
    BY <2>1
<1> HIDE DEF step, base
<1>2. PICK g \in [SUBSET (1 .. n) -> StreakState] : Folds(g, n, base, step)
  BY <1>0, <1>1, FoldExists
<1>3. StreaksTo(g, s)
  <2>1. ASSUME NEW T \in SUBSET (1 .. n), T # {}
        PROVE  g[T] = StreakStep(g[T \ {Max(T)}], s[Max(T)])
    <3>1. Max(T) \in T
      BY <2>1, MaxOfPart
    <3>2. Max(T) \in 1 .. n /\ g[T \ {Max(T)}] \in StreakState
      BY <3>1
    <3>3. g[T] = step[<<Max(T), g[T \ {Max(T)}]>>]
      BY <1>2, <2>1 DEF Folds
    <3> QED
      BY <1>1, <3>2, <3>3
  <2>2. g[{}] = base
    BY <1>2 DEF Folds
  <2> QED
    BY <2>1, <2>2 DEF StreaksTo, base
<1> DEFINE h == CHOOSE iter : StreaksTo(iter, s)
<1>4. StreaksTo(h, s)
  BY <1>3
<1>5. FoldLeft(StreakStep, [w |-> 0, l |-> 0, wins |-> 0, losses |-> 0], s) = h[1 .. n]
  BY DEF FoldLeft, MapThenFoldSet, StreaksTo
<1> HIDE DEF h
<1>6. h[{}] = base /\ 1 .. 0 = {}
  BY <1>4 DEF StreaksTo, base
<1>7. ASSUME NEW k \in 0 .. n - 1 PROVE h[1 .. k + 1] = StreakStep(h[1 .. k], s[k + 1])
  <2>1. 1 .. k + 1 \in SUBSET DOMAIN s /\ 1 .. k + 1 # {}
    <3>1. 1 .. k + 1 \subseteq 1 .. n /\ k + 1 \in 1 .. k + 1
      OBVIOUS
    <3> QED
      BY <3>1
  <2>2. Max(1 .. k + 1) = k + 1 /\ (1 .. k + 1) \ {k + 1} = 1 .. k
    <3>1. k + 1 \in Nat /\ k + 1 # 0 /\ (k + 1) - 1 = k
      OBVIOUS
    <3> QED
      BY <3>1, MaxOfPrefix
  <2> QED
    BY <1>4, <2>1, <2>2 DEF StreaksTo
<1> DEFINE f == [k \in 0 .. n |-> h[1 .. k]]
<1>8. f[0] = base /\ \A k \in 0 .. n - 1 : f[k + 1] = StreakStep(f[k], s[k + 1])
  BY <1>6, <1>7
<1>9. \A k \in 0 .. n : f[k] \in StreakState
  <2> DEFINE G == {k \in 0 .. n : f[k] \in StreakState}
  <2>1. 0 \in G
    BY <1>0, <1>8
  <2>2. ASSUME NEW k \in 0 .. n, k + 1 <= n, k \in G PROVE k + 1 \in G
    <3>1. k \in 0 .. n - 1 /\ k + 1 \in 1 .. n /\ k + 1 \in 0 .. n
      BY <2>2
    <3>2. f[k + 1] = StreakStep(f[k], s[k + 1])
      BY <1>8, <3>1
    <3>3. f[k] \in StreakState /\ s[k + 1] \in BacktestTrade
      BY <2>2, <3>1
    <3> HIDE DEF f
    <3> QED
      BY <3>1, <3>2, <3>3, StreakStepType
  <2> HIDE DEF G
  <2>3. \A k \in 0 .. n : k \in G
    BY <2>1, <2>2, UpTo
  <2> QED
    BY <2>3 DEF G
<1>10. f \in [0 .. n -> StreakState] /\ f[n] = h[1 .. n]
  BY <1>9
<1> HIDE DEF f
<1> QED
  BY <1>5, <1>8, <1>10 DEF StreaksOf, base

(* The running total of a list of results, from nothing.                     *)
Levels(s, n) == [k \in 0 .. n |-> Level(s, k)]

LEMMA SumOverIsSumOf == \A f, S : SumOver(f, S) = SumOf(f, S)
BY DEF SumOver, SumOf

LEMMA LevelsAre ==
    ASSUME NEW n \in Nat, NEW s \in [1 .. n -> Int]
    PROVE  /\ Levels(s, n) \in [0 .. n -> Int] /\ Levels(s, n)[0] = 0
           /\ \A k \in 0 .. n - 1 : Levels(s, n)[k + 1] = Levels(s, n)[k] + s[k + 1]
           /\ Total(s) = Levels(s, n)[n]
<1>1. \A k : Level(s, k) = SumOf(s, 1 .. k)
  BY SumOverIsSumOf DEF Level
<1>2. \A k \in 0 .. n : SumOf(s, 1 .. k) \in Int
  <2>1. ASSUME NEW k \in 0 .. n PROVE IsFiniteSet(1 .. k) /\ \A x \in 1 .. k : s[x] \in Int
    BY FS_Interval
  <2> QED
    BY <2>1, SumOfInteger
<1>3. SumOf(s, 1 .. 0) = 0
  <2>1. 1 .. 0 = {}
    OBVIOUS
  <2> QED
    BY <2>1, SumOfEmpty
<1>4. ASSUME NEW k \in 0 .. n - 1 PROVE SumOf(s, 1 .. k + 1) = SumOf(s, 1 .. k) + s[k + 1]
  <2>1. IsFiniteSet(1 .. k + 1) /\ k + 1 \in 1 .. k + 1 /\ (1 .. k + 1) \ {k + 1} = 1 .. k
    <3>1. IsFiniteSet(1 .. k + 1)
      BY FS_Interval
    <3> QED
      BY <3>1
  <2>2. \A x \in 1 .. k + 1 : s[x] \in Int
    OBVIOUS
  <2>3. SumOf(s, 1 .. k + 1) = s[k + 1] + SumOf(s, (1 .. k + 1) \ {k + 1})
    BY <2>1, <2>2, SumOfRemove
  <2>4. s[k + 1] \in Int /\ SumOf(s, 1 .. k) \in Int
    <3>1. k \in 0 .. n /\ k + 1 \in 1 .. n
      OBVIOUS
    <3> QED
      BY <1>2, <3>1
  <2>5. SumOf(s, 1 .. k + 1) = s[k + 1] + SumOf(s, 1 .. k)
    BY <2>1, <2>3
  <2> QED
    BY <2>4, <2>5
<1>5. Total(s) = SumOf(s, 1 .. n)
  <2>1. DOMAIN s = 1 .. n
    OBVIOUS
  <2> QED
    BY <2>1, SumOverIsSumOf DEF Total
<1>6. \A k \in 0 .. n : Levels(s, n)[k] = SumOf(s, 1 .. k)
  BY <1>1 DEF Levels
<1>7. 0 \in 0 .. n /\ n \in 0 .. n /\ \A k \in 0 .. n - 1 : k \in 0 .. n /\ k + 1 \in 0 .. n
  OBVIOUS
<1>8. Levels(s, n) \in [0 .. n -> Int]
  BY <1>1, <1>2 DEF Levels
<1> QED
  BY <1>3, <1>4, <1>5, <1>6, <1>7, <1>8

(* p is the highest of the first levels, q the lowest, d the deepest fall    *)
(* from one to a later one.                                                  *)
IsPeak(p, lv, k) == (\E i \in 0 .. k : p = lv[i]) /\ \A i \in 0 .. k : lv[i] <= p
IsTrough(q, lv, k) == (\E i \in 0 .. k : q = lv[i]) /\ \A i \in 0 .. k : lv[i] >= q
IsFall(d, lv, k) ==
    /\ \E i \in 0 .. k : \E j \in i .. k : d = lv[i] - lv[j]
    /\ \A i \in 0 .. k : \A j \in i .. k : lv[i] - lv[j] <= d

LEMMA FirstLevel ==
    ASSUME NEW n \in Nat, NEW lv \in [0 .. n -> Int]
    PROVE  IsPeak(lv[0], lv, 0) /\ IsTrough(lv[0], lv, 0) /\ IsFall(0, lv, 0)
<1>1. lv[0] \in Int /\ 0 .. 0 = {0}
  OBVIOUS
<1>2. lv[0] <= lv[0] /\ lv[0] - lv[0] = 0
  BY <1>1
<1>3. IsPeak(lv[0], lv, 0) /\ IsTrough(lv[0], lv, 0)
  BY <1>1, <1>2 DEF IsPeak, IsTrough
<1>4. IsFall(0, lv, 0)
  BY <1>1, <1>2 DEF IsFall
<1> QED
  BY <1>3, <1>4

LEMMA NextPeak ==
    ASSUME NEW n \in Nat, NEW lv \in [0 .. n -> Int], NEW k \in 0 .. n - 1, NEW p, IsPeak(p, lv, k)
    PROVE  IsPeak(Max({p, lv[k + 1]}), lv, k + 1)
<1>1. PICK i \in 0 .. k : p = lv[i]
  BY DEF IsPeak
<1>2. p \in Int /\ lv[k + 1] \in Int
  BY <1>1
<1>3. Max({p, lv[k + 1]}) = IF p >= lv[k + 1] THEN p ELSE lv[k + 1]
  BY <1>2, MaxOfTwo
<1>4. i \in 0 .. k + 1 /\ k + 1 \in 0 .. k + 1
  OBVIOUS
<1>5. \A j \in 0 .. k + 1 : lv[j] \in Int /\ (j = k + 1 \/ j \in 0 .. k)
  OBVIOUS
<1>6. \A j \in 0 .. k : lv[j] <= p
  BY DEF IsPeak
<1>7. \A j \in 0 .. k + 1 : lv[j] <= Max({p, lv[k + 1]})
  <2> TAKE j \in 0 .. k + 1
  <2>1. CASE j = k + 1
    BY <1>2, <1>3, <2>1
  <2>2. CASE j \in 0 .. k
    BY <1>2, <1>3, <1>5, <1>6, <2>2
  <2> QED
    BY <1>5, <2>1, <2>2
<1>8. \E j \in 0 .. k + 1 : Max({p, lv[k + 1]}) = lv[j]
  BY <1>1, <1>3, <1>4
<1> QED
  BY <1>7, <1>8 DEF IsPeak

LEMMA NextTrough ==
    ASSUME NEW n \in Nat, NEW lv \in [0 .. n -> Int], NEW k \in 0 .. n - 1, NEW p, IsTrough(p, lv, k)
    PROVE  IsTrough(Min({p, lv[k + 1]}), lv, k + 1)
<1>1. PICK i \in 0 .. k : p = lv[i]
  BY DEF IsTrough
<1>2. p \in Int /\ lv[k + 1] \in Int
  BY <1>1
<1> DEFINE q == Min({p, lv[k + 1]})
<1>3. q \in {p, lv[k + 1]} /\ q <= p /\ q <= lv[k + 1]
  BY <1>2, MinOfTwo
<1> HIDE DEF q
<1>4. i \in 0 .. k + 1 /\ k + 1 \in 0 .. k + 1
  OBVIOUS
<1>5. \A j \in 0 .. k + 1 : lv[j] \in Int /\ (j = k + 1 \/ j \in 0 .. k)
  OBVIOUS
<1>6. \A j \in 0 .. k : lv[j] >= p
  BY DEF IsTrough
<1>7. \A j \in 0 .. k + 1 : lv[j] >= q
  <2> TAKE j \in 0 .. k + 1
  <2>1. CASE j = k + 1
    BY <1>2, <1>3, <2>1
  <2>2. CASE j \in 0 .. k
    BY <1>2, <1>3, <1>5, <1>6, <2>2
  <2> QED
    BY <1>5, <2>1, <2>2
<1>8. \E j \in 0 .. k + 1 : q = lv[j]
  BY <1>1, <1>3, <1>4
<1> QED
  BY <1>7, <1>8 DEF IsTrough, q

LEMMA NextFall ==
    ASSUME NEW n \in Nat, NEW lv \in [0 .. n -> Int], NEW k \in 0 .. n - 1,
           NEW p, IsPeak(p, lv, k + 1), NEW d, IsFall(d, lv, k)
    PROVE  IsFall(Max({d, p - lv[k + 1]}), lv, k + 1)
<1>1. PICK a \in 0 .. k + 1 : p = lv[a]
  BY DEF IsPeak
<1>2. PICK b \in 0 .. k : \E c \in b .. k : d = lv[b] - lv[c]
  BY DEF IsFall
<1>3. PICK c \in b .. k : d = lv[b] - lv[c]
  BY <1>2
<1>4. \A j \in 0 .. k + 1 : lv[j] \in Int
  OBVIOUS
<1>5. p \in Int /\ d \in Int /\ lv[k + 1] \in Int
  BY <1>1, <1>3, <1>4, SMTT(30)
<1> DEFINE e == Max({d, p - lv[k + 1]})
<1>6. e = IF d >= p - lv[k + 1] THEN d ELSE p - lv[k + 1]
  BY <1>5, MaxOfTwo
<1> HIDE DEF e
<1>7. e \in Int /\ e >= d /\ e >= p - lv[k + 1]
  BY <1>5, <1>6
<1>8. ASSUME NEW i \in 0 .. k + 1, NEW j \in i .. k + 1 PROVE lv[i] - lv[j] <= e
  <2>1. CASE j = k + 1
    <3>1. lv[i] <= p /\ lv[i] \in Int
      BY <1>4 DEF IsPeak
    <3> QED
      BY <1>5, <1>7, <2>1, <3>1
  <2>2. CASE j # k + 1
    <3>1. i \in 0 .. k /\ j \in i .. k
      BY <2>2
    <3>2. lv[i] - lv[j] <= d
      BY <3>1 DEF IsFall
    <3>3. lv[i] \in Int /\ lv[j] \in Int
      BY <3>1
    <3> QED
      BY <1>5, <1>7, <3>2, <3>3
  <2> QED
    BY <2>1, <2>2
<1>9. \E i \in 0 .. k + 1 : \E j \in i .. k + 1 : e = lv[i] - lv[j]
  <2>1. CASE e = d
    <3>1. b \in 0 .. k + 1 /\ c \in b .. k + 1
      OBVIOUS
    <3> QED
      BY <1>3, <2>1, <3>1
  <2>2. CASE e = p - lv[k + 1]
    <3>1. k + 1 \in a .. k + 1
      OBVIOUS
    <3> QED
      BY <1>1, <2>2, <3>1
  <2> QED
    BY <1>6, <2>1, <2>2
<1> QED
  BY <1>8, <1>9 DEF IsFall, e

(* There is one deepest fall.                                                *)
LEMMA OneFall ==
    ASSUME NEW n \in Nat, NEW lv \in [0 .. n -> Int], NEW k \in 0 .. n,
           NEW d, IsFall(d, lv, k), NEW e, IsFall(e, lv, k)
    PROVE  d = e /\ d \in Int /\ d >= 0
<1>1. PICK i \in 0 .. k : \E j \in i .. k : d = lv[i] - lv[j]
  BY DEF IsFall
<1>2. PICK j \in i .. k : d = lv[i] - lv[j]
  BY <1>1
<1>3. PICK u \in 0 .. k : \E v \in u .. k : e = lv[u] - lv[v]
  BY DEF IsFall
<1>4. PICK v \in u .. k : e = lv[u] - lv[v]
  BY <1>3
<1>5. \A m \in 0 .. k : lv[m] \in Int
  OBVIOUS
<1>6. i \in 0 .. k /\ j \in 0 .. k /\ u \in 0 .. k /\ v \in 0 .. k /\ 0 \in 0 .. 0 /\ 0 \in 0 .. k
  OBVIOUS
<1>7. d \in Int /\ e \in Int
  BY <1>2, <1>4, <1>5, <1>6, SMTT(30)
<1>8. d <= e /\ e <= d
  BY <1>2, <1>4 DEF IsFall
<1>9. lv[0] - lv[0] <= d
  <2>1. 0 \in 0 .. k
    OBVIOUS
  <2> QED
    BY <2>1 DEF IsFall
<1>10. lv[0] \in Int
  OBVIOUS
<1> QED
  BY <1>7, <1>8, <1>9, <1>10

LEMMA DeepestFallIs ==
    ASSUME NEW n \in Nat, NEW s \in [1 .. n -> Int], NEW d, IsFall(d, Levels(s, n), n)
    PROVE  DeepestFall(s) = d
<1> DEFINE lv == Levels(s, n)
           From(i) == {lv[i] - lv[j] : j \in i .. n}
           Fall(i) == {Level(s, i) - Level(s, j) : j \in i .. n}
           falls == UNION {From(i) : i \in 0 .. n}
<1>1. Len(s) = n
  OBVIOUS
<1>2. \A i \in 0 .. n : lv[i] = Level(s, i)
  BY DEF Levels
<1>3. \A i \in 0 .. n : From(i) = Fall(i)
  BY <1>2
<1>4. DeepestFall(s) = Max(falls)
  <2>1. DeepestFall(s) = Max(UNION {Fall(i) : i \in 0 .. n})
    BY <1>1 DEF DeepestFall
  <2> HIDE DEF From, Fall
  <2>2. {Fall(i) : i \in 0 .. n} = {From(i) : i \in 0 .. n}
    BY <1>3
  <2> QED
    BY <2>1, <2>2
<1>5. lv \in [0 .. n -> Int]
  BY LevelsAre
<1> HIDE DEF lv
<1>6. d \in falls
  BY DEF IsFall, lv
<1>7. \A x \in falls : x <= d
  BY DEF IsFall, lv
<1>8. d \in Int
  BY <1>5, OneFall DEF lv
<1>9. falls \subseteq Int
  <2> SUFFICES ASSUME NEW i \in 0 .. n, NEW j \in i .. n PROVE lv[i] - lv[j] \in Int
    OBVIOUS
  <2>1. lv[i] \in Int /\ lv[j] \in Int
    BY <1>5
  <2> QED
    BY <2>1
<1> HIDE DEF falls
<1>10. \A x \in falls : (\A y \in falls : x >= y) => x = d
  BY <1>6, <1>7, <1>8, <1>9
<1>11. \A x \in falls : d >= x
  BY <1>7, <1>8, <1>9
<1>12. Max(falls) = d
  BY <1>6, <1>10, <1>11 DEF Max
<1> QED
  BY <1>4, <1>12

LEMMA StockDrawdown ==
    ASSUME NEW n \in Nat, NEW s \in [1 .. n -> Int]
    PROVE  stock_compute_max_drawdown(s) = DeepestFall(s)
<1> DEFINE lv == Levels(s, n)
<1>1. PICK f : /\ StockStepsOf(f, s, n)
               /\ FoldLeft(StockStep, [equity |-> 0, peak |-> 0, dd |-> 0], s) = f[n]
  BY StockStepsExist
<1>2. /\ lv \in [0 .. n -> Int] /\ lv[0] = 0
      /\ \A k \in 0 .. n - 1 : lv[k + 1] = lv[k] + s[k + 1]
  BY LevelsAre
<1> HIDE DEF lv
<1> DEFINE P(k) == /\ f[k].equity = lv[k] /\ IsPeak(f[k].peak, lv, k)
                   /\ IsFall(f[k].dd, lv, k)
           G == {k \in 0 .. n : P(k)}
<1>3. 0 \in G
  <2>1. f[0].equity = 0 /\ f[0].peak = 0 /\ f[0].dd = 0
    BY <1>1 DEF StockStepsOf
  <2>2. IsPeak(0, lv, 0) /\ IsFall(0, lv, 0)
    BY <1>2, FirstLevel
  <2> QED
    BY <1>2, <2>1, <2>2
<1>4. ASSUME NEW k \in 0 .. n, k + 1 <= n, k \in G PROVE k + 1 \in G
  <2>1. k \in 0 .. n - 1 /\ k + 1 \in 0 .. n /\ P(k)
    BY <1>4
  <2>2. f[k + 1] = StockStep(f[k], s[k + 1]) /\ lv[k + 1] = lv[k] + s[k + 1]
    BY <1>1, <1>2, <2>1 DEF StockStepsOf
  <2>3. /\ f[k + 1].equity = lv[k + 1] /\ f[k + 1].peak = Max({f[k].peak, lv[k + 1]})
        /\ f[k + 1].dd = Max({f[k].dd, f[k + 1].peak - lv[k + 1]})
    BY <2>1, <2>2 DEF StockStep
  <2>4. IsPeak(f[k + 1].peak, lv, k + 1)
    BY <1>2, <2>1, <2>3, NextPeak
  <2>5. IsFall(f[k + 1].dd, lv, k + 1)
    BY <1>2, <2>1, <2>3, <2>4, NextFall
  <2> QED
    BY <2>1, <2>3, <2>4, <2>5
<1>5. n \in G
  <2> HIDE DEF G
  <2>1. \A k \in 0 .. n : k \in G
    BY <1>3, <1>4, UpTo
  <2> QED
    BY <2>1
<1>6. DeepestFall(s) = f[n].dd
  BY <1>5, DeepestFallIs DEF lv
<1> QED
  BY <1>1, <1>6 DEF stock_compute_max_drawdown

LEMMA MetricsDrawdown ==
    ASSUME NEW n \in Nat, NEW s \in [1 .. n -> Int]
    PROVE  /\ compute_max_drawdown(s) \in DrawdownState
           /\ compute_max_drawdown(s).dd = DeepestFall(s)
           /\ IsFall(compute_max_drawdown(s).dd, Levels(s, n), n)
           /\ \E j \in 0 .. n : compute_max_drawdown(s).dd
                                    = compute_max_drawdown(s).dd_peak - Levels(s, n)[j]
<1> DEFINE lv == Levels(s, n)
<1>1. PICK f : /\ DrawdownsOf(f, s, n)
               /\ FoldLeft(DrawdownStep, [equity |-> 0, peak |-> 0, dd |-> 0, dd_peak |-> 0], s)
                      = f[n]
  BY DrawdownsExist
<1>2. /\ lv \in [0 .. n -> Int] /\ lv[0] = 0
      /\ \A k \in 0 .. n - 1 : lv[k + 1] = lv[k] + s[k + 1]
  BY LevelsAre
<1> HIDE DEF lv
<1> DEFINE P(k) == /\ f[k].equity = lv[k] /\ IsPeak(f[k].peak, lv, k)
                   /\ IsFall(f[k].dd, lv, k)
                   /\ \E j \in 0 .. k : f[k].dd = f[k].dd_peak - lv[j]
           G == {k \in 0 .. n : P(k)}
<1>3. 0 \in G
  <2>1. f[0].equity = 0 /\ f[0].peak = 0 /\ f[0].dd = 0 /\ f[0].dd_peak = 0
    BY <1>1 DEF DrawdownsOf
  <2>2. IsPeak(0, lv, 0) /\ IsFall(0, lv, 0)
    BY <1>2, FirstLevel
  <2>3. 0 \in 0 .. 0 /\ f[0].dd = f[0].dd_peak - lv[0]
    BY <1>2, <2>1
  <2> QED
    BY <1>2, <2>1, <2>2, <2>3
<1>4. ASSUME NEW k \in 0 .. n, k + 1 <= n, k \in G PROVE k + 1 \in G
  <2>1. k \in 0 .. n - 1 /\ k + 1 \in 0 .. n /\ P(k)
    BY <1>4
  <2>2. f[k + 1] = DrawdownStep(f[k], s[k + 1]) /\ lv[k + 1] = lv[k] + s[k + 1]
    BY <1>1, <1>2, <2>1 DEF DrawdownsOf
  <2>3. /\ f[k + 1].equity = lv[k + 1] /\ f[k + 1].peak = Max({f[k].peak, lv[k + 1]})
        /\ f[k + 1].dd = Max({f[k].dd, f[k + 1].peak - lv[k + 1]})
        /\ f[k + 1].dd_peak = IF f[k + 1].peak - lv[k + 1] > f[k].dd
                              THEN f[k + 1].peak ELSE f[k].dd_peak
    BY <2>1, <2>2 DEF DrawdownStep
  <2>4. IsPeak(f[k + 1].peak, lv, k + 1)
    BY <1>2, <2>1, <2>3, NextPeak
  <2>5. IsFall(f[k + 1].dd, lv, k + 1)
    BY <1>2, <2>1, <2>3, <2>4, NextFall
  <2>6. \E j \in 0 .. k + 1 : f[k + 1].dd = f[k + 1].dd_peak - lv[j]
    <3>1. f[k] \in DrawdownState /\ f[k + 1] \in DrawdownState
      BY <1>1, <2>1 DEF DrawdownsOf
    <3>2. f[k].dd \in Int /\ f[k + 1].peak - lv[k + 1] \in Int
      <4>1. f[k].dd \in Int /\ f[k + 1].peak \in Int
        BY <3>1 DEF DrawdownState
      <4>2. lv[k + 1] \in Int
        BY <1>2, <2>1
      <4> QED
        BY <4>1, <4>2
    <3>3. f[k + 1].dd = IF f[k].dd >= f[k + 1].peak - lv[k + 1] THEN f[k].dd
                        ELSE f[k + 1].peak - lv[k + 1]
      BY <2>3, <3>2, MaxOfTwo
    <3>4. CASE f[k + 1].peak - lv[k + 1] > f[k].dd
      <4>1. k + 1 \in 0 .. k + 1
        OBVIOUS
      <4>2. f[k + 1].dd = f[k + 1].dd_peak - lv[k + 1]
        BY <2>3, <3>2, <3>3, <3>4
      <4> QED
        BY <4>1, <4>2
    <3>5. CASE ~(f[k + 1].peak - lv[k + 1] > f[k].dd)
      <4>1. PICK j \in 0 .. k : f[k].dd = f[k].dd_peak - lv[j]
        BY <2>1
      <4>2. j \in 0 .. k + 1
        OBVIOUS
      <4>3. f[k + 1].dd = f[k].dd /\ f[k + 1].dd_peak = f[k].dd_peak
        BY <2>3, <3>2, <3>3, <3>5
      <4> QED
        BY <4>1, <4>2, <4>3
    <3> QED
      BY <3>4, <3>5
  <2> QED
    BY <2>1, <2>3, <2>4, <2>5, <2>6
<1>5. n \in G
  <2> HIDE DEF G
  <2>1. \A k \in 0 .. n : k \in G
    BY <1>3, <1>4, UpTo
  <2> QED
    BY <2>1
<1>6. DeepestFall(s) = f[n].dd
  BY <1>5, DeepestFallIs DEF lv
<1>7. f[n] \in DrawdownState
  BY <1>1 DEF DrawdownsOf
<1>8. compute_max_drawdown(s) = f[n]
  BY <1>1 DEF compute_max_drawdown
<1> QED
  BY <1>5, <1>6, <1>7, <1>8 DEF lv

(* What one simulated run reports of the results it replays.                 *)
LEMMA SimulateIs ==
    ASSUME NEW n \in Nat, NEW s \in [1 .. n -> Int], NEW c \in Int
    PROVE  /\ simulate_one(s, c) \in SimState
           /\ simulate_one(s, c).equity = c + Total(s)
           /\ simulate_one(s, c).dd = DeepestFall(s)
           /\ IsFall(simulate_one(s, c).dd, Levels(s, n), n)
           /\ \E q \in Int : /\ simulate_one(s, c).min_equity = c + q
                             /\ IsTrough(q, Levels(s, n), n)
<1> DEFINE lv == Levels(s, n)
<1>1. PICK f : /\ SimStepsOf(f, c, s, n)
               /\ FoldLeft(SimStep, [equity |-> c, peak |-> c, min_equity |-> c,
                                     dd |-> 0, streak |-> 0, losses |-> 0], s) = f[n]
  BY SimStepsExist
<1>2. /\ lv \in [0 .. n -> Int] /\ lv[0] = 0 /\ Total(s) = lv[n]
      /\ \A k \in 0 .. n - 1 : lv[k + 1] = lv[k] + s[k + 1]
  BY LevelsAre
<1> HIDE DEF lv
<1> DEFINE P(k) == /\ f[k].equity = c + lv[k] /\ IsFall(f[k].dd, lv, k)
                   /\ \E p \in Int : f[k].peak = c + p /\ IsPeak(p, lv, k)
                   /\ \E q \in Int : f[k].min_equity = c + q /\ IsTrough(q, lv, k)
           G == {k \in 0 .. n : P(k)}
<1>3. 0 \in G
  <2>1. f[0].equity = c /\ f[0].peak = c /\ f[0].min_equity = c /\ f[0].dd = 0
    BY <1>1 DEF SimStepsOf
  <2>2. IsPeak(0, lv, 0) /\ IsTrough(0, lv, 0) /\ IsFall(0, lv, 0)
    BY <1>2, FirstLevel
  <2>3. c = c + 0
    OBVIOUS
  <2> QED
    BY <1>2, <2>1, <2>2, <2>3
<1>4. ASSUME NEW k \in 0 .. n, k + 1 <= n, k \in G PROVE k + 1 \in G
  <2>1. k \in 0 .. n - 1 /\ k + 1 \in 0 .. n /\ k + 1 \in 1 .. n /\ P(k)
    BY <1>4
  <2>2. f[k + 1] = SimStep(f[k], s[k + 1]) /\ lv[k + 1] = lv[k] + s[k + 1]
    BY <1>1, <1>2, <2>1 DEF SimStepsOf
  <2>3. PICK p \in Int : f[k].peak = c + p /\ IsPeak(p, lv, k)
    BY <2>1
  <2>4. PICK q \in Int : f[k].min_equity = c + q /\ IsTrough(q, lv, k)
    BY <2>1
  <2>5. /\ lv[k] \in Int /\ lv[k + 1] \in Int /\ s[k + 1] \in Int /\ f[k].dd \in Int
    <3>1. f[k] \in SimState
      BY <1>1, <2>1 DEF SimStepsOf
    <3> QED
      BY <1>2, <2>1, <3>1 DEF SimState
  <2> DEFINE e == f[k].equity + s[k + 1]
             fall == IF e > f[k].peak THEN 0 ELSE f[k].peak - e
  <2>6. /\ f[k + 1].equity = e /\ f[k + 1].peak = Max({f[k].peak, e})
        /\ f[k + 1].min_equity = Min({f[k].min_equity, e})
        /\ f[k + 1].dd = Max({f[k].dd, fall})
    BY <2>2 DEF SimStep
  <2>7. e = c + lv[k + 1] /\ e \in Int
    <3> DEFINE a == f[k].equity
               d == s[k + 1]
               l == lv[k]
               m == lv[k + 1]
    <3>1. a = c + l
      BY <2>1
    <3>2. m = l + d /\ l \in Int /\ d \in Int
      BY <2>2, <2>5
    <3> HIDE DEF a, d, l, m
    <3>3. a + d = c + m /\ a + d \in Int
      BY <3>1, <3>2
    <3> QED
      BY <3>3 DEF a, d, m
  <2>8. fall = IF e > f[k].peak THEN 0 ELSE f[k].peak - e
    OBVIOUS
  <2> HIDE DEF e, fall
  <2> DEFINE p1 == Max({p, lv[k + 1]})
             q1 == Min({q, lv[k + 1]})
  <2>9. IsPeak(p1, lv, k + 1) /\ IsTrough(q1, lv, k + 1)
    BY <1>2, <2>1, <2>3, <2>4, NextPeak, NextTrough
  <2>10. p1 = IF p >= lv[k + 1] THEN p ELSE lv[k + 1]
    BY <2>5, MaxOfTwo
  <2>11. q1 \in {q, lv[k + 1]} /\ q1 <= q /\ q1 <= lv[k + 1]
    BY <2>5, MinOfTwo
  <2> HIDE DEF p1, q1
  <2>12. f[k + 1].peak = c + p1
    <3>1. f[k + 1].peak = IF f[k].peak >= e THEN f[k].peak ELSE e
      BY <2>3, <2>6, <2>7, MaxOfTwo
    <3> QED
      BY <2>3, <2>5, <2>7, <2>10, <3>1
  <2>13. f[k + 1].min_equity = c + q1
    <3>1. /\ f[k + 1].min_equity \in {f[k].min_equity, e}
          /\ f[k + 1].min_equity <= f[k].min_equity /\ f[k + 1].min_equity <= e
      <4>1. f[k].min_equity \in Int
        BY <2>4
      <4> QED
        BY <2>6, <2>7, <4>1, MinOfTwo
    <3> DEFINE x == f[k + 1].min_equity
    <3>2. (x = c + q \/ x = c + lv[k + 1]) /\ x <= c + q /\ x <= c + lv[k + 1]
      BY <2>4, <2>7, <3>1
    <3>3. q1 = q \/ q1 = lv[k + 1]
      BY <2>11
    <3> HIDE DEF x
    <3> DEFINE l == lv[k + 1]
    <3>4. /\ q \in Int /\ l \in Int /\ c \in Int
          /\ (x = c + q \/ x = c + l) /\ x <= c + q /\ x <= c + l
          /\ (q1 = q \/ q1 = l) /\ q1 <= q /\ q1 <= l
      BY <2>5, <2>11, <3>2, <3>3
    <3> HIDE DEF l
    <3>5. x = c + q1
      BY <3>4
    <3> QED
      BY <3>5 DEF x
  <2>14. p1 \in Int /\ q1 \in Int
    BY <2>5, <2>10, <2>11
  <2>15. IsFall(f[k + 1].dd, lv, k + 1)
    <3>1. fall = p1 - lv[k + 1]
      BY <2>3, <2>5, <2>7, <2>8, <2>10
    <3>2. f[k + 1].dd = Max({f[k].dd, p1 - lv[k + 1]}) /\ IsFall(f[k].dd, lv, k)
      BY <2>1, <2>6, <3>1
    <3> QED
      BY <1>2, <2>1, <2>9, <3>2, NextFall
  <2> QED
    BY <2>1, <2>6, <2>7, <2>9, <2>12, <2>13, <2>14, <2>15
<1>5. n \in G
  <2> HIDE DEF G
  <2>1. \A k \in 0 .. n : k \in G
    BY <1>3, <1>4, UpTo
  <2> QED
    BY <2>1
<1>6. DeepestFall(s) = f[n].dd
  BY <1>5, DeepestFallIs DEF lv
<1>7. f[n] \in SimState
  BY <1>1 DEF SimStepsOf
<1>8. simulate_one(s, c) = f[n]
  BY <1>1 DEF simulate_one
<1> QED
  BY <1>2, <1>5, <1>6, <1>7, <1>8 DEF lv

(* The analytics helper finds the deepest fall of the levels it is given, the*)
(* first of them counted as the start.                                       *)
LEMMA HelperDrawdown ==
    ASSUME NEW m \in Nat \ {0}, NEW c \in [1 .. m -> Int], NEW lv \in [0 .. m -> Int],
           lv[0] = c[1], \A k \in 1 .. m : lv[k] = c[k]
    PROVE  IsFall(max_drawdown(c), lv, m)
<1>0. c[1] \in Int
  OBVIOUS
<1>1. PICK f : /\ FallsOf(f, c[1], c, m)
               /\ FoldLeft(FallStep, [peak |-> c[1], dd |-> 0], c) = f[m]
  BY <1>0, FallsExist
<1> DEFINE P(k) == IsPeak(f[k].peak, lv, k) /\ IsFall(f[k].dd, lv, k)
           G == {k \in 0 .. m : P(k)}
<1>3. 0 \in G
  <2>1. f[0].peak = c[1] /\ f[0].dd = 0
    BY <1>1 DEF FallsOf
  <2>2. IsPeak(lv[0], lv, 0) /\ IsFall(0, lv, 0)
    BY FirstLevel
  <2> QED
    BY <2>1, <2>2
<1>4. ASSUME NEW k \in 0 .. m, k + 1 <= m, k \in G PROVE k + 1 \in G
  <2>1. k \in 0 .. m - 1 /\ k + 1 \in 0 .. m /\ k + 1 \in 1 .. m /\ P(k)
    BY <1>4
  <2>2. f[k + 1] = FallStep(f[k], c[k + 1]) /\ lv[k + 1] = c[k + 1]
    BY <1>1, <2>1 DEF FallsOf
  <2>3. /\ f[k + 1].peak = Max({f[k].peak, lv[k + 1]})
        /\ f[k + 1].dd = Max({f[k].dd, f[k + 1].peak - lv[k + 1]})
    BY <2>1, <2>2 DEF FallStep
  <2>4. IsPeak(f[k + 1].peak, lv, k + 1)
    BY <2>1, <2>3, NextPeak, SMTT(30)
  <2>5. IsFall(f[k + 1].dd, lv, k + 1)
    <3>1. m \in Nat /\ IsFall(f[k].dd, lv, k)
      BY <2>1
    <3> HIDE DEF G
    <3>2. IsFall(Max({f[k].dd, f[k + 1].peak - lv[k + 1]}), lv, k + 1)
      BY <2>1, <2>4, <3>1, NextFall
    <3> QED
      BY <2>3, <3>2
  <2> QED
    BY <2>1, <2>3, <2>4, <2>5
<1>5. m \in G
  <2> HIDE DEF G
  <2>1. \A k \in 0 .. m : k \in G
    BY <1>3, <1>4, UpTo
  <2> QED
    BY <2>1
<1>6. c # << >>
  <2>1. Len(c) = m
    OBVIOUS
  <2> QED
    BY <2>1
<1> QED
  BY <1>1, <1>5, <1>6 DEF max_drawdown

(* A result of exactly zero ends the simulator's losing streak but not that  *)
(* of the metrics engine, which is therefore never the shorter.              *)
LEMMA StreaksAgree ==
    ASSUME NEW n \in Nat, NEW ts \in [1 .. n -> BacktestTrade], NEW c \in Int
    PROVE  LET sim == simulate_one(PnlsOf(ts), c)
               met == compute_consecutive(ts)
           IN  /\ sim.losses <= met.losses
               /\ (\A i \in DOMAIN ts : ts[i].pnl # 0) => sim.losses = met.losses
<1> DEFINE s == PnlsOf(ts)
           nz == \A i \in 1 .. n : ts[i].pnl # 0
<1>0. s \in [1 .. n -> Int] /\ (\A i \in 1 .. n : s[i] = ts[i].pnl) /\ DOMAIN ts = 1 .. n
  BY RecordIs DEF PnlsOf
<1> HIDE DEF s
<1>1. PICK f : /\ SimStepsOf(f, c, s, n)
               /\ FoldLeft(SimStep, [equity |-> c, peak |-> c, min_equity |-> c,
                                     dd |-> 0, streak |-> 0, losses |-> 0], s) = f[n]
  BY <1>0, SimStepsExist
<1>2. PICK g : /\ StreaksOf(g, ts, n)
               /\ FoldLeft(StreakStep, [w |-> 0, l |-> 0, wins |-> 0, losses |-> 0], ts) = g[n]
  BY StreaksExist
<1> DEFINE P(k) == /\ f[k].streak <= g[k].l /\ f[k].losses <= g[k].losses
                   /\ nz => f[k].streak = g[k].l /\ f[k].losses = g[k].losses
                   /\ g[k].l >= 0
           G == {k \in 0 .. n : P(k)}
<1>3. 0 \in G
  BY <1>1, <1>2 DEF SimStepsOf, StreaksOf
<1>4. ASSUME NEW k \in 0 .. n, k + 1 <= n, k \in G PROVE k + 1 \in G
  <2>1. k \in 0 .. n - 1 /\ k + 1 \in 0 .. n /\ k + 1 \in 1 .. n /\ P(k)
    BY <1>4
  <2>2. /\ f[k + 1] = SimStep(f[k], s[k + 1]) /\ g[k + 1] = StreakStep(g[k], ts[k + 1])
        /\ f[k] \in SimState /\ g[k] \in StreakState
    BY <1>1, <1>2, <2>1 DEF SimStepsOf, StreaksOf
  <2> DEFINE e == s[k + 1]
             a == IF e < 0 THEN f[k].streak + 1 ELSE 0
             b == IF e > 0 THEN 0 ELSE g[k].l + 1
  <2>3. e = ts[k + 1].pnl /\ e \in Int /\ (nz => e # 0)
    BY <1>0, <2>1
  <2>4. /\ f[k + 1].streak = a /\ f[k + 1].losses = Max({f[k].losses, a})
        /\ g[k + 1].l = b /\ g[k + 1].losses = Max({g[k].losses, b})
    BY <2>2, <2>3 DEF SimStep, StreakStep
  <2>5. /\ f[k].streak \in Int /\ g[k].l \in Int /\ f[k].losses \in Int /\ g[k].losses \in Int
    BY <2>2 DEF SimState, StreakState
  <2>6. a = (IF e < 0 THEN f[k].streak + 1 ELSE 0) /\ b = (IF e > 0 THEN 0 ELSE g[k].l + 1)
    OBVIOUS
  <2> HIDE DEF e, a, b, nz
  <2>7. a \in Int /\ b \in Int /\ a <= b /\ b >= 0 /\ (nz => a = b)
    BY <2>1, <2>3, <2>5, <2>6, SMTT(30)
  <2>8. /\ f[k + 1].losses = IF f[k].losses >= a THEN f[k].losses ELSE a
        /\ g[k + 1].losses = IF g[k].losses >= b THEN g[k].losses ELSE b
    BY <2>4, <2>5, <2>7, MaxOfTwo
  <2>9. P(k + 1)
    BY <2>1, <2>4, <2>5, <2>7, <2>8
  <2> QED
    BY <2>1, <2>9
<1>5. n \in G
  <2> HIDE DEF G
  <2>1. \A k \in 0 .. n : k \in G
    BY <1>3, <1>4, UpTo
  <2> QED
    BY <2>1
<1>6. simulate_one(s, c) = f[n] /\ compute_consecutive(ts) = g[n]
  BY <1>1, <1>2 DEF simulate_one, compute_consecutive
<1> QED
  BY <1>0, <1>5, <1>6 DEF s

EnteredTrades == {t \in BacktestTrade : t.reason # "NO_BREAKOUT"}
TradesOf(sym) == {t \in BacktestTrade : t.sym = sym}

LEMMA FiltersAre ==
    ASSUME NEW n \in Nat, NEW all \in [1 .. n -> BacktestTrade], NEW sym
    PROVE  /\ Executed(all) = Members(all, EnteredTrades)
           /\ OfSymbol(all, sym) = Members(all, TradesOf(sym))
           /\ Executed(all) \in Seq(BacktestTrade)
           /\ OfSymbol(all, sym) \in Seq(BacktestTrade)
<1> DEFINE E == {all[i] : i \in {j \in DOMAIN all : all[j].reason # "NO_BREAKOUT"}}
           S == {all[i] : i \in {j \in DOMAIN all : all[j].sym = sym}}
<1>1. Executed(all) = Members(all, E) /\ OfSymbol(all, sym) = Members(all, S)
  BY DEF Executed, OfSymbol, Filtered
<1>2. FilteredAlike(all, E, all, EnteredTrades, n)
  BY DEF EnteredTrades, FilteredAlike
<1>3. FilteredAlike(all, S, all, TradesOf(sym), n)
  BY DEF TradesOf, FilteredAlike
<1> HIDE DEF E, S
<1>4. Members(all, E) = Members(all, EnteredTrades) /\ Members(all, E) \in Seq(BacktestTrade)
  BY <1>2, MembersSame
<1>5. Members(all, S) = Members(all, TradesOf(sym)) /\ Members(all, S) \in Seq(BacktestTrade)
  BY <1>3, MembersSame
<1> QED
  BY <1>1, <1>4, <1>5

(* The executed trades of a stock are the stock's executed trades.           *)
LEMMA BucketsCommute ==
    ASSUME NEW all \in Seq(BacktestTrade), NEW sym
    PROVE  Executed(OfSymbol(all, sym))
               = OfSymbol(Executed(all), sym)
<1> DEFINE F(s) == OfSymbol(s, sym)
<1>1. \A s \in Seq(BacktestTrade) :
        /\ Executed(s) = Members(s, EnteredTrades) /\ Executed(s) \in Seq(BacktestTrade)
        /\ F(s) = Members(s, TradesOf(sym)) /\ F(s) \in Seq(BacktestTrade)
  <2> TAKE s \in Seq(BacktestTrade)
  <2> DEFINE n == Len(s)
  <2>1. n \in Nat /\ s \in [1 .. n -> BacktestTrade]
    OBVIOUS
  <2> HIDE DEF n
  <2> QED
    BY <2>1, FiltersAre
<1>2. Members(Members(all, TradesOf(sym)), EnteredTrades)
          = Members(Members(all, EnteredTrades), TradesOf(sym))
  <2> DEFINE n == Len(all)
  <2>1. n \in Nat /\ all \in [1 .. n -> BacktestTrade]
    OBVIOUS
  <2> HIDE DEF n
  <2>2. ASSUME NEW S, NEW T
        PROVE  Members(Members(all, S), T) = Members(Members(all, T), S)
    BY <2>1, FiltersCommute, SMTT(30)
  <2> QED
    BY <2>2
<1> HIDE DEF F
<1>3. Executed(F(all)) = F(Executed(all))
  BY <1>1, <1>2
<1> QED
  BY <1>3 DEF F

(* The executed trades are those at the positions with an entry, in order.   *)
EnteredAt(all, ts, m, at) ==
    /\ m \in Nat /\ Ascends(at, m, Entered(all, DOMAIN all))
    /\ ts = [i \in 1 .. m |-> all[at[i]]]

LEMMA ExecutedAre ==
    ASSUME NEW all \in Seq(BacktestTrade)
    PROVE  \E m, at : EnteredAt(all, Executed(all), m, at)
<1> DEFINE n == Len(all)
           E == {all[i] : i \in {j \in DOMAIN all : all[j].reason # "NO_BREAKOUT"}}
<1>1. n \in Nat /\ all \in [1 .. n -> BacktestTrade] /\ DOMAIN all = 1 .. n
  OBVIOUS
<1>2. Executed(all) = Members(all, E)
  BY DEF Executed, Filtered
<1>3. PositionsIn(all, n, E) = Entered(all, DOMAIN all)
  BY <1>1 DEF PositionsIn, Entered
<1> HIDE DEF n, E
<1>4. IsList(all, n)
  BY <1>1 DEF IsList
<1>5. PICK m, at : MembersAt(all, n, E, m, at)
  BY <1>1, <1>4, MembersAre
<1>6. EnteredAt(all, Executed(all), m, at)
  BY <1>2, <1>3, <1>5 DEF MembersAt, EnteredAt
<1> QED
  BY <1>6

InDayOrder(ts) == \A i, j \in DOMAIN ts : i < j => ts[i].day <= ts[j].day

(* The trades up to a day come first.                                        *)
UpToDay(ts, d) == {i \in DOMAIN ts : ts[i].day <= d}
EndOf(ts, d) == Cardinality(UpToDay(ts, d))

LEMMA EndIs ==
    ASSUME NEW n \in Nat, NEW ts \in [1 .. n -> BacktestTrade], InDayOrder(ts), NEW d \in Int
    PROVE  EndOf(ts, d) \in 0 .. n /\ UpToDay(ts, d) = 1 .. EndOf(ts, d)
<1> DEFINE W == UpToDay(ts, d)
<1>1. DOMAIN ts = 1 .. n /\ \A i \in 1 .. n : ts[i].day \in Int
  BY RecordIs
<1>2. W \in SUBSET (1 .. n)
  BY <1>1 DEF UpToDay
<1>3. ASSUME NEW e \in 0 .. n, W = 1 .. e PROVE EndOf(ts, d) \in 0 .. n /\ UpToDay(ts, d) = 1 .. EndOf(ts, d)
  <2>1. Cardinality(1 .. e) = e
    BY FS_Interval
  <2> QED
    BY <1>3, <2>1 DEF EndOf
<1>4. CASE W = {}
  <2>1. W = 1 .. 0 /\ 0 \in 0 .. n
    BY <1>4
  <2> QED
    BY <1>3, <2>1
<1>5. CASE W # {}
  <2> DEFINE e == Max(W)
  <2>1. e \in W /\ \A x \in W : e >= x
    BY <1>2, <1>5, MaxOfPart
  <2> HIDE DEF e
  <2>2. e \in 1 .. n /\ ts[e].day <= d
    BY <1>1, <2>1 DEF UpToDay
  <2>3. ASSUME NEW i \in 1 .. e PROVE i \in W
    <3>1. i \in 1 .. n /\ e \in 1 .. n /\ (i = e \/ i < e)
      BY <2>2
    <3>2. ts[i].day <= ts[e].day
      <4>1. CASE i = e
        BY <1>1, <3>1, <4>1
      <4>2. CASE i < e
        BY <1>1, <3>1, <4>2 DEF InDayOrder
      <4> QED
        BY <3>1, <4>1, <4>2
    <3>3. ts[i].day <= d
      BY <1>1, <2>2, <3>1, <3>2
    <3> QED
      BY <1>1, <3>1, <3>3 DEF UpToDay
  <2>4. \A i \in W : i \in 1 .. e
    BY <1>2, <2>1, <2>2
  <2>5. W \subseteq 1 .. e /\ 1 .. e \subseteq W
    <3> HIDE DEF W
    <3> QED
      BY <2>3, <2>4
  <2>6. W = 1 .. e
    <3> HIDE DEF W
    <3> QED
      BY <2>5
  <2>7. e \in 0 .. n
    BY <2>2
  <2> QED
    BY <1>3, <2>6, <2>7
<1> QED
  BY <1>4, <1>5

(* The days of the trades, and the results of each of them.                  *)
DaysOf(ts) == {ts[i].day : i \in DOMAIN ts}
OnDay(ts, d) == {i \in DOMAIN ts : ts[i].day = d}
DayResult(ts) == [d \in DaysOf(ts) |-> SumOf(PnlsOf(ts), OnDay(ts, d))]

DailyFrom(ts, m, order) ==
    /\ m = Cardinality(DaysOf(ts)) /\ order \in [1 .. m -> DaysOf(ts)]
    /\ \A i, j \in 1 .. m : i < j => order[i] < order[j]
    /\ \A d \in DaysOf(ts) : \E i \in 1 .. m : order[i] = d
    /\ DailySeries(ts) = [i \in 1 .. m |-> DayResult(ts)[order[i]]]

LEMMA PnlsAre ==
    ASSUME NEW n \in Nat, NEW ts \in [1 .. n -> BacktestTrade]
    PROVE  /\ PnlsOf(ts) \in [1 .. n -> Int] /\ \A i \in 1 .. n : PnlsOf(ts)[i] = ts[i].pnl
BY RecordIs DEF PnlsOf

LEMMA DaysAre ==
    ASSUME NEW n \in Nat, NEW ts \in [1 .. n -> BacktestTrade]
    PROVE  /\ IsFiniteSet(DaysOf(ts)) /\ DaysOf(ts) \subseteq Int
           /\ Cardinality(DaysOf(ts)) \in Nat /\ Cardinality(DaysOf(ts)) <= n
<1> DEFINE S == 1 .. n
           key == [i \in S |-> ts[i].day]
<1>1. IsFiniteSet(S) /\ Cardinality(S) = n
  BY FS_Interval
<1>2. {key[i] : i \in S} = DaysOf(ts)
  BY DEF DaysOf
<1>3. DaysOf(ts) \subseteq Int
  BY RecordIs DEF DaysOf
<1> HIDE DEF S, key
<1>4. IsFiniteSet({key[i] : i \in S}) /\ Cardinality({key[i] : i \in S}) <= Cardinality(S)
  BY <1>1, FiniteImage
<1> QED
  BY <1>1, <1>2, <1>3, <1>4, FS_CardinalityType

LEMMA DailyAre ==
    ASSUME NEW n \in Nat, NEW ts \in [1 .. n -> BacktestTrade]
    PROVE  \E m, order : DailyFrom(ts, m, order)
<1> DEFINE D == DaysOf(ts)
           value == [d \in D |-> d]
           order == SortedBy(D, value)
           m == Cardinality(D)
<1>1. IsFiniteSet(D) /\ D \subseteq Int /\ m \in Nat
  BY DaysAre
<1>2. DailySeries(ts) = [i \in DOMAIN order |-> SumOver(PnlsOf(ts), OnDay(ts, order[i]))]
  BY DEF DailySeries, DaysOf, OnDay, Bucket
<1> HIDE DEF D
<1>3. \A x \in D : value[x] = x /\ value[x] \in Int
  BY <1>1
<1> HIDE DEF value
<1>4. Enumerates(order, D) /\ Sorted(order, value)
  BY <1>1, <1>3, SortedByIs
<1> HIDE DEF order
<1>5. order \in [1 .. m -> D] /\ (\A i, j \in 1 .. m : i # j => order[i] # order[j])
  BY <1>4 DEF Enumerates
<1>6. ASSUME NEW i \in 1 .. m, NEW j \in 1 .. m, i < j PROVE order[i] < order[j]
  <2>1. value[order[i]] <= value[order[j]] /\ order[i] # order[j]
    BY <1>4, <1>5, <1>6 DEF Sorted
  <2>2. order[i] \in Int /\ order[j] \in Int /\ value[order[i]] = order[i] /\ value[order[j]] = order[j]
    BY <1>1, <1>3, <1>5
  <2> QED
    BY <2>1, <2>2
<1>7. ASSUME NEW d \in D PROVE \E i \in 1 .. m : order[i] = d
  <2> DEFINE S == 1 .. m
             I == {order[i] : i \in S}
  <2>1. IsFiniteSet(S) /\ Cardinality(S) = m /\ \A i, j \in S : order[i] = order[j] => i = j
    BY <1>1, <1>5, FS_Interval
  <2>2. I \subseteq D
    BY <1>5
  <2> HIDE DEF S
  <2>3. Cardinality(I) = m
    BY <2>1, FiniteImage
  <2> HIDE DEF I
  <2>4. I = D
    BY <1>1, <2>2, <2>3, FS_Subset DEF m
  <2>5. d \in I
    BY <2>4
  <2> QED
    BY <2>5 DEF I, S
<1>8. DailySeries(ts) = [i \in 1 .. m |-> DayResult(ts)[order[i]]]
  <2>1. ASSUME NEW i \in 1 .. m PROVE SumOver(PnlsOf(ts), OnDay(ts, order[i])) = DayResult(ts)[order[i]]
    <3>1. order[i] \in DaysOf(ts)
      BY <1>5 DEF D
    <3> QED
      BY <3>1, SumOverIsSumOf DEF DayResult
  <2>2. DOMAIN order = 1 .. m
    BY <1>5
  <2> HIDE DEF m
  <2> QED
    BY <1>2, <2>1, <2>2
<1>9. DailyFrom(ts, m, order)
  BY <1>5, <1>6, <1>7, <1>8 DEF DailyFrom, D
<1> HIDE DEF m
<1> QED
  BY <1>9

(* The total after a day is the level after the last trade of that day.      *)
LEMMA DayLevel ==
    ASSUME NEW n \in Nat, NEW ts \in [1 .. n -> BacktestTrade], InDayOrder(ts),
           NEW m, NEW order, DailyFrom(ts, m, order), NEW k \in 1 .. m
    PROVE  Level(DailySeries(ts), k) = Level(PnlsOf(ts), EndOf(ts, order[k]))
<1> DEFINE s == PnlsOf(ts)
           daily == DailySeries(ts)
           h == DayResult(ts)
           S == UpToDay(ts, order[k])
           K == 1 .. k
           key == [i \in 1 .. n |-> ts[i].day]
<1>1. DOMAIN ts = 1 .. n /\ s \in [1 .. n -> Int] /\ \A i \in 1 .. n : ts[i].day \in Int
  BY PnlsAre, RecordIs
<1>2. /\ m \in Nat /\ order \in [1 .. m -> DaysOf(ts)] /\ DaysOf(ts) \subseteq Int
      /\ \A i, j \in 1 .. m : i < j => order[i] < order[j]
      /\ \A d \in DaysOf(ts) : \E i \in 1 .. m : order[i] = d
      /\ daily = [i \in 1 .. m |-> h[order[i]]]
  BY DaysAre DEF DailyFrom
<1>3. order[k] \in Int
  BY <1>2
<1>4. S \subseteq 1 .. n /\ IsFiniteSet(S)
  <2>1. S \subseteq 1 .. n
    BY <1>1 DEF UpToDay
  <2>2. IsFiniteSet(1 .. n)
    BY FS_Interval
  <2> QED
    BY <2>1, <2>2, FS_Subset
<1>5. ASSUME NEW d \in DaysOf(ts) PROVE d <= order[k] <=> \E i \in K : order[i] = d
  <2>1. PICK i \in 1 .. m : order[i] = d
    BY <1>2
  <2>2. \A j \in 1 .. m : order[j] \in Int
    BY <1>2
  <2>3. i <= k => order[i] <= order[k]
    <3>1. CASE i = k
      BY <2>2, <3>1
    <3>2. CASE i < k
      BY <1>2, <2>2, <3>2
    <3> QED
      BY <1>2, <3>1, <3>2
  <2>4. i > k => order[k] < order[i]
    BY <1>2
  <2>5. (\E j \in K : order[j] = d) => i <= k
    <3> SUFFICES ASSUME NEW j \in K, order[j] = d PROVE i <= k
      OBVIOUS
    <3>1. j \in 1 .. m /\ j <= k
      BY <1>2
    <3>2. ~(j < i)
      BY <1>2, <2>1, <2>2, <3>1
    <3> QED
      BY <1>2, <3>1, <3>2
  <2>6. i <= k => i \in K
    BY <1>2
  <2>7. order[i] \in Int /\ order[k] \in Int
    BY <2>2
  <2> QED
    BY <1>2, <2>1, <2>3, <2>4, <2>5, <2>6, <2>7
<1>6. {key[x] : x \in S} = {order[i] : i \in K}
  <2>1. ASSUME NEW x \in S PROVE key[x] \in {order[i] : i \in K}
    <3>1. x \in 1 .. n /\ key[x] = ts[x].day /\ ts[x].day <= order[k]
      BY <1>1 DEF UpToDay
    <3>2. ts[x].day \in DaysOf(ts)
      BY <1>1, <3>1 DEF DaysOf
    <3> QED
      BY <1>5, <3>1, <3>2
  <2>2. ASSUME NEW i \in K PROVE order[i] \in {key[x] : x \in S}
    <3>1. i \in 1 .. m /\ order[i] \in DaysOf(ts)
      BY <1>2
    <3>2. PICK x \in 1 .. n : order[i] = ts[x].day
      BY <1>1, <3>1 DEF DaysOf
    <3>3. ts[x].day <= order[k]
      BY <1>5, <3>1, <3>2
    <3>4. x \in S
      BY <1>1, <3>3 DEF UpToDay
    <3> QED
      BY <3>2, <3>4
  <2> QED
    BY <2>1, <2>2
<1>7. Grouped(h, s, key, S)
  <2> SUFFICES ASSUME NEW d \in {key[x] : x \in S}
               PROVE  h[d] = SumOf(s, {x \in S : key[x] = d})
    BY DEF Grouped
  <2>1. PICK y \in S : d = key[y]
    OBVIOUS
  <2>2. y \in 1 .. n /\ d = ts[y].day /\ d <= order[k]
    BY <1>1, <2>1 DEF UpToDay
  <2>3. {x \in S : key[x] = d} = OnDay(ts, d)
    <3>1. \A x \in 1 .. n : ts[x].day = d => x \in S
      BY <1>1, <2>2 DEF UpToDay
    <3> QED
      BY <1>1, <1>4, <3>1 DEF OnDay
  <2>4. d \in DaysOf(ts)
    BY <1>1, <2>2 DEF DaysOf
  <2> QED
    BY <2>3, <2>4 DEF DayResult
<1>8. SumOf(h, {key[x] : x \in S}) = SumOf(s, S)
  <2>1. \A x \in S : s[x] \in Int
    BY <1>1, <1>4
  <2> HIDE DEF h, s, key, S
  <2> QED
    BY <1>4, <1>7, <2>1, SumOfGroups
<1>9. \A d \in DaysOf(ts) : h[d] \in Int
  <2> SUFFICES ASSUME NEW d \in DaysOf(ts) PROVE SumOf(s, OnDay(ts, d)) \in Int
    BY DEF DayResult
  <2>1. OnDay(ts, d) \subseteq 1 .. n /\ IsFiniteSet(1 .. n)
    BY <1>1, FS_Interval DEF OnDay
  <2>2. IsFiniteSet(OnDay(ts, d)) /\ \A x \in OnDay(ts, d) : s[x] \in Int
    BY <1>1, <2>1, FS_Subset
  <2> QED
    BY <2>2, SumOfInteger
<1>10. SumOf(h, {order[i] : i \in K}) = SumOf(daily, K)
  <2>1. IsFiniteSet(K) /\ \A i \in K : i \in 1 .. m
    BY <1>2, FS_Interval
  <2>2. \A i, j \in K : order[i] = order[j] => i = j
    <3> SUFFICES ASSUME NEW i \in K, NEW j \in K, order[i] = order[j] PROVE i = j
      OBVIOUS
    <3>1. i \in 1 .. m /\ j \in 1 .. m /\ order[i] \in Int /\ order[j] \in Int
      BY <1>2, <2>1
    <3>2. ~(i < j) /\ ~(j < i)
      BY <1>2, <3>1
    <3> QED
      BY <3>1, <3>2
  <2>3. \A i \in K : daily[i] = h[order[i]] /\ daily[i] \in Int
    BY <1>2, <1>9, <2>1
  <2> HIDE DEF K, h, daily
  <2> QED
    BY <2>1, <2>2, <2>3, SumOfImage
<1>11. S = 1 .. EndOf(ts, order[k])
  BY <1>3, EndIs
<1> HIDE DEF s, daily, h, S, key
<1>12. SumOf(daily, K) = SumOf(s, 1 .. EndOf(ts, order[k]))
  BY <1>6, <1>8, <1>10, <1>11
<1> QED
  BY <1>12, SumOverIsSumOf DEF Level, s, daily

LEMMA ListOfTrades ==
    ASSUME NEW ts \in Seq(BacktestTrade)
    PROVE  \E n \in Nat : ts \in [1 .. n -> BacktestTrade] /\ Len(ts) = n /\ DOMAIN ts = 1 .. n
<1> DEFINE n == Len(ts)
<1>1. n \in Nat /\ ts \in [1 .. n -> BacktestTrade] /\ DOMAIN ts = 1 .. n
  OBVIOUS
<1> QED
  BY <1>1

(* The executed trades are trades, still in day order.                       *)
LEMMA ExecutedInOrder ==
    ASSUME NEW all \in Seq(BacktestTrade)
    PROVE  /\ Executed(all) \in Seq(BacktestTrade)
           /\ InDayOrder(all) => InDayOrder(Executed(all))
<1>1. PICK n \in Nat : all \in [1 .. n -> BacktestTrade] /\ DOMAIN all = 1 .. n
  BY ListOfTrades
<1>2. Executed(all) \in Seq(BacktestTrade)
  BY <1>1, FiltersAre
<1>3. ASSUME InDayOrder(all) PROVE InDayOrder(Executed(all))
  <2>1. PICK m, at : EnteredAt(all, Executed(all), m, at)
    BY ExecutedAre
  <2> DEFINE ts == Executed(all)
  <2>2. /\ m \in Nat /\ Ascends(at, m, Entered(all, DOMAIN all))
        /\ ts = [i \in 1 .. m |-> all[at[i]]]
    BY <2>1 DEF EnteredAt
  <2>3. /\ at \in [1 .. m -> Entered(all, DOMAIN all)]
        /\ \A i, j \in 1 .. m : i < j => at[i] < at[j]
    BY <2>2 DEF Ascends
  <2>4. Entered(all, DOMAIN all) \subseteq DOMAIN all
    BY DEF Entered
  <2> HIDE DEF ts
  <2>5. DOMAIN ts = 1 .. m
    BY <2>2
  <2>6. ASSUME NEW i \in 1 .. m, NEW j \in 1 .. m, i < j PROVE ts[i].day <= ts[j].day
    <3>1. at[i] \in DOMAIN all /\ at[j] \in DOMAIN all /\ at[i] < at[j]
      BY <2>3, <2>4, <2>6
    <3>2. all[at[i]].day <= all[at[j]].day
      BY <1>3, <3>1 DEF InDayOrder
    <3> QED
      BY <2>2, <3>2
  <2> QED
    BY <2>5, <2>6 DEF InDayOrder, ts
<1> QED
  BY <1>2, <1>3

(* Later days end later.                                                     *)
LEMMA EndsGrow ==
    ASSUME NEW n \in Nat, NEW ts \in [1 .. n -> BacktestTrade], InDayOrder(ts),
           NEW d \in Int, NEW e \in Int, d <= e
    PROVE  EndOf(ts, d) <= EndOf(ts, e)
<1>1. /\ EndOf(ts, d) \in 0 .. n /\ UpToDay(ts, d) = 1 .. EndOf(ts, d)
      /\ EndOf(ts, e) \in 0 .. n /\ UpToDay(ts, e) = 1 .. EndOf(ts, e)
  BY EndIs
<1>2. UpToDay(ts, d) \subseteq UpToDay(ts, e)
  BY RecordIs DEF UpToDay
<1> DEFINE a == EndOf(ts, d)
           b == EndOf(ts, e)
<1>3. 1 .. a \subseteq 1 .. b /\ a \in Nat /\ b \in Nat
  BY <1>1, <1>2
<1> HIDE DEF a, b
<1>4. a <= b
  <2>1. CASE a = 0
    BY <1>3, <2>1
  <2>2. CASE a # 0
    <3>1. a \in 1 .. a
      BY <1>3, <2>2
    <3>2. a \in 1 .. b
      BY <1>3, <3>1
    <3> QED
      BY <3>2
  <2> QED
    BY <2>1, <2>2
<1> QED
  BY <1>4 DEF a, b

(* The analytics helper works on the totals after each day, which are some   *)
(* of the levels of the running total: it never sees a deeper fall.          *)
LEMMA HelperNeverMore ==
    ASSUME NEW n \in Nat, NEW ts \in [1 .. n -> BacktestTrade], InDayOrder(ts)
    PROVE  max_drawdown(cumulative_pnl_series(daily_pnl_series(ts))) <= DeepestFall(PnlsOf(ts))
<1> DEFINE s == PnlsOf(ts)
           lv == Levels(s, n)
           d == DeepestFall(s)
           daily == DailySeries(ts)
           c == cumulative_pnl_series(daily)
<1>1. s \in [1 .. n -> Int]
  BY PnlsAre
<1>2. lv \in [0 .. n -> Int] /\ IsFall(d, lv, n) /\ d \in Int /\ d >= 0
  <2>1. lv \in [0 .. n -> Int]
    BY <1>1, LevelsAre
  <2>2. IsFall(d, lv, n)
    <3> HIDE DEF s
    <3> QED
      BY <1>1, MetricsDrawdown
  <2> HIDE DEF lv, d
  <2>3. n \in 0 .. n
    OBVIOUS
  <2> QED
    BY <2>1, <2>2, <2>3, OneFall
<1>3. PICK m, order : DailyFrom(ts, m, order)
  BY DailyAre
<1>4. /\ m \in Nat /\ order \in [1 .. m -> DaysOf(ts)] /\ DaysOf(ts) \subseteq Int
      /\ (\A i, j \in 1 .. m : i < j => order[i] < order[j])
      /\ DOMAIN daily = 1 .. m
  BY <1>3, DaysAre DEF DailyFrom
<1>5. c = [k \in 1 .. m |-> Level(daily, k)]
  BY <1>4 DEF cumulative_pnl_series
<1> DEFINE end(k) == EndOf(ts, order[k])
<1>6. ASSUME NEW k \in 1 .. m PROVE c[k] = lv[end(k)] /\ end(k) \in 0 .. n
  <2>1. order[k] \in Int
    BY <1>4
  <2>2. end(k) \in 0 .. n
    BY <2>1, EndIs
  <2>3. c[k] = Level(s, end(k))
    BY <1>3, <1>5, DayLevel
  <2> QED
    BY <2>2, <2>3 DEF Levels
<1>7. ASSUME NEW i \in 1 .. m, NEW j \in 1 .. m, i <= j PROVE end(i) <= end(j)
  <2>1. order[i] \in Int /\ order[j] \in Int
    BY <1>4
  <2>2. order[i] <= order[j]
    BY <1>4, <1>7, <2>1
  <2> QED
    BY <2>1, <2>2, EndsGrow
<1>8. max_drawdown(c) <= d
  <2> HIDE DEF s, lv, d, daily, c, end
  <2>1. CASE m = 0
    <3>1. c = << >>
      BY <1>5, <2>1
    <3> QED
      BY <1>2, <3>1 DEF max_drawdown
  <2>2. CASE m # 0
    <3>1. c \in [1 .. m -> Int]
      BY <1>2, <1>5, <1>6
    <3> DEFINE at(k) == IF k = 0 THEN 1 ELSE k
               w == [k \in 0 .. m |-> c[at(k)]]
    <3>2. w \in [0 .. m -> Int] /\ w[0] = c[1] /\ \A k \in 1 .. m : w[k] = c[k]
      BY <1>4, <2>2, <3>1
    <3>3. \A k \in 0 .. m : w[k] = c[at(k)] /\ at(k) \in 1 .. m
      BY <1>4, <2>2
    <3>4. \A i \in 0 .. m : \A j \in i .. m : j \in 0 .. m /\ at(i) <= at(j)
      BY <1>4, <2>2
    <3> HIDE DEF w, at
    <3>5. m \in Nat \ {0}
      BY <1>4, <2>2
    <3>6. IsFall(max_drawdown(c), w, m)
      BY <3>1, <3>2, <3>5, HelperDrawdown
    <3>7. PICK i \in 0 .. m : \E j \in i .. m : max_drawdown(c) = w[i] - w[j]
      BY <3>6 DEF IsFall
    <3>8. PICK j \in i .. m : max_drawdown(c) = w[i] - w[j]
      BY <3>7
    <3>9. j \in 0 .. m /\ at(i) <= at(j) /\ at(i) \in 1 .. m /\ at(j) \in 1 .. m
      BY <3>3, <3>4
    <3>10. end(at(i)) <= end(at(j)) /\ end(at(i)) \in 0 .. n /\ end(at(j)) \in 0 .. n
      BY <1>6, <1>7, <3>9
    <3>11. end(at(j)) \in end(at(i)) .. n
      BY <3>10
    <3>12. w[i] = lv[end(at(i))] /\ w[j] = lv[end(at(j))]
      BY <1>6, <3>3, <3>9
    <3>13. lv[end(at(i))] - lv[end(at(j))] <= d
      BY <1>2, <3>10, <3>11 DEF IsFall
    <3> QED
      BY <3>8, <3>12, <3>13
  <2> QED
    BY <2>1, <2>2
<1> QED
  BY <1>8 DEF daily_pnl_series

(* One day, or none, has no Sharpe ratio in either place.                    *)
LEMMA SharpesAgree ==
    ASSUME NEW n \in Nat, NEW ts \in [1 .. n -> BacktestTrade]
    PROVE  LET daily == daily_pnl_series(ts)
           IN  /\ sharpe_ratio(daily)
                      = (IF compute_sharpe(ts) = None THEN 0 ELSE compute_sharpe(ts))
               /\ rolling_sharpe(daily, 2) # << >> /\ Len(daily) = 2 =>
                      rolling_sharpe(daily, 2)[2] = sharpe_ratio(daily)
<1> DEFINE daily == DailySeries(ts)
<1>1. PICK m, order : DailyFrom(ts, m, order)
  BY DailyAre
<1>2. m \in Nat /\ m <= n /\ Len(daily) = m /\ daily \in Seq({DayResult(ts)[order[i]] : i \in 1 .. m})
  <2>1. m \in Nat /\ m <= n
    BY <1>1, DaysAre DEF DailyFrom
  <2>2. daily = [i \in 1 .. m |-> DayResult(ts)[order[i]]]
    BY <1>1 DEF DailyFrom
  <2> HIDE DEF daily
  <2> QED
    BY <2>1, <2>2
<1> HIDE DEF daily
<1>3. Len(ts) = n
  OBVIOUS
<1>4. n < 2 => SharpeSign(daily) = None
  BY <1>2 DEF SharpeSign
<1>5. compute_sharpe(ts) = IF n < 2 THEN None ELSE SharpeSign(daily)
  BY <1>3 DEF compute_sharpe, daily
<1>6. sharpe_ratio(daily) = (IF compute_sharpe(ts) = None THEN 0 ELSE compute_sharpe(ts))
  BY <1>4, <1>5 DEF sharpe_ratio
<1>7. ASSUME m = 2 PROVE rolling_sharpe(daily, 2)[2] = sharpe_ratio(daily)
  <2>1. 2 \in 2 .. Len(daily)
    BY <1>2, <1>7
  <2>2. rolling_sharpe(daily, 2)[2] = sharpe_ratio(SubSeq(daily, 2 - 2 + 1, 2))
    BY <2>1 DEF rolling_sharpe
  <2>3. SubSeq(daily, 2 - 2 + 1, 2) = daily
    BY <1>2, <1>7
  <2> QED
    BY <2>2, <2>3
<1> QED
  BY <1>2, <1>6, <1>7 DEF daily_pnl_series, daily

(* The drawdown of a stock is the deepest fall over its executed trades.     *)
LEMMA StocksAgree ==
    ASSUME NEW all \in Seq(BacktestTrade), NEW sym
    PROVE  analyse_symbol(all, sym).max_drawdown
               = DeepestFall(PnlsOf(OfSymbol(Executed(all), sym)))
<1> DEFINE ts == OfSymbol(Executed(all), sym)
<1>1. ts \in Seq(BacktestTrade)
  <2>1. Executed(all) \in Seq(BacktestTrade)
    BY ExecutedInOrder
  <2>2. PICK n \in Nat : Executed(all) \in [1 .. n -> BacktestTrade]
    BY <2>1, ListOfTrades
  <2> QED
    BY <2>2, FiltersAre
<1>2. Executed(OfSymbol(all, sym)) = ts
  BY BucketsCommute
<1>3. analyse_symbol(all, sym).max_drawdown = stock_compute_max_drawdown(PnlsOf(ts))
  BY <1>2 DEF analyse_symbol
<1> HIDE DEF ts
<1>4. PICK n \in Nat : ts \in [1 .. n -> BacktestTrade]
  BY <1>1, ListOfTrades
<1>5. PnlsOf(ts) \in [1 .. n -> Int]
  BY <1>4, PnlsAre
<1>6. stock_compute_max_drawdown(PnlsOf(ts)) = DeepestFall(PnlsOf(ts))
  BY <1>5, StockDrawdown
<1> QED
  BY <1>3, <1>6 DEF ts

LEMMA RiskAgrees ==
    ASSUME trades \in Seq(BacktestTrade), InDayOrder(trades)
    PROVE  RiskNumbersAgree
<1> DEFINE ts == Executed(trades)
           s == PnlsOf(ts)
           c == StartingCapital
           met == compute_max_drawdown(s)
           sim == simulate_one(s, c)
           streaks == compute_consecutive(ts)
           daily == daily_pnl_series(ts)
           sharpe == compute_sharpe(ts)
<1>1. ts \in Seq(BacktestTrade) /\ InDayOrder(ts)
  BY ExecutedInOrder
<1>2. c \in Int
  BY StatisticsAssumption
<1> HIDE DEF ts, c
<1>3. PICK n \in Nat : ts \in [1 .. n -> BacktestTrade] /\ DOMAIN ts = 1 .. n
  BY <1>1, ListOfTrades
<1>4. s \in [1 .. n -> Int]
  BY <1>3, PnlsAre
<1>5. (\A i \in DOMAIN ts : ts[i].pnl # 0) => sim.losses = streaks.losses
  BY <1>2, <1>3, StreaksAgree
<1>6. max_drawdown(cumulative_pnl_series(daily)) <= DeepestFall(s)
  BY <1>1, <1>3, HelperNeverMore
<1>7. /\ sharpe_ratio(daily) = (IF sharpe = None THEN 0 ELSE sharpe)
      /\ rolling_sharpe(daily, 2) # << >> /\ Len(daily) = 2 =>
             rolling_sharpe(daily, 2)[2] = sharpe_ratio(daily)
  BY <1>3, SharpesAgree
<1> HIDE DEF s, streaks, daily, sharpe
<1>8. /\ met \in DrawdownState /\ met.dd = DeepestFall(s) /\ IsFall(met.dd, Levels(s, n), n)
      /\ \E j \in 0 .. n : met.dd = met.dd_peak - Levels(s, n)[j]
  BY <1>4, MetricsDrawdown
<1>9. /\ sim \in SimState /\ sim.dd = DeepestFall(s)
      /\ \E q \in Int : sim.min_equity = c + q /\ IsTrough(q, Levels(s, n), n)
  BY <1>2, <1>4, SimulateIs
<1>10. met.dd <= met.dd_peak \/ sim.min_equity < c
  <2>1. PICK j \in 0 .. n : met.dd = met.dd_peak - Levels(s, n)[j]
    BY <1>8
  <2>2. PICK q \in Int : sim.min_equity = c + q /\ IsTrough(q, Levels(s, n), n)
    BY <1>9
  <2>3. q <= Levels(s, n)[j] /\ Levels(s, n)[j] \in Int
    BY <1>4, <2>2, LevelsAre DEF IsTrough
  <2>4. met.dd \in Int /\ met.dd_peak \in Int
    BY <1>8 DEF DrawdownState
  <2> HIDE DEF met, sim
  <2>5. q < 0 => c + q < c
    BY <1>2
  <2>6. q >= 0 => met.dd <= met.dd_peak
    BY <2>1, <2>3, <2>4
  <2> QED
    BY <2>2, <2>5, <2>6
<1>11. \A sym : analyse_symbol(trades, sym).max_drawdown = DeepestFall(PnlsOf(OfSymbol(ts, sym)))
  BY StocksAgree DEF ts
<1>12. /\ calculate(trades).drawdown = met /\ calculate(trades).sharpe = sharpe
       /\ calculate(trades).streaks = streaks
  BY DEF calculate, ts, s, sharpe, streaks
<1> QED
  BY <1>5, <1>6, <1>7, <1>8, <1>9, <1>10, <1>11, <1>12
     DEF RiskNumbersAgree, ts, s, c, daily

(* What one trade adds to each count of a tally.                             *)
Counts == {"total", "wins", "losses", "sl_hits", "pnl"}
TradeWeight(t, f) ==
    CASE f = "total" -> 1
      [] f = "wins" -> IF t.pnl > 0 THEN 1 ELSE 0
      [] f = "losses" -> IF t.pnl > 0 THEN 0 ELSE 1
      [] f = "sl_hits" -> IF t.reason = "SL_HIT" THEN 1 ELSE 0
      [] f = "pnl" -> t.pnl
WeightOf(ts, f) == [i \in DOMAIN ts |-> TradeWeight(ts[i], f)]

LEMMA WeightsAre ==
    ASSUME NEW n \in Nat, NEW ts \in [1 .. n -> BacktestTrade], NEW f \in Counts, NEW i \in 1 .. n
    PROVE  WeightOf(ts, f)[i] \in Int
<1>1. ts[i].pnl \in Int /\ DOMAIN ts = 1 .. n
  BY RecordIs
<1>2. CASE f = "total"
  BY <1>1, <1>2 DEF TradeWeight, WeightOf
<1>3. CASE f = "wins"
  BY <1>1, <1>3 DEF TradeWeight, WeightOf
<1>4. CASE f = "losses"
  BY <1>1, <1>4 DEF TradeWeight, WeightOf
<1>5. CASE f = "sl_hits"
  BY <1>1, <1>5 DEF TradeWeight, WeightOf
<1>6. CASE f = "pnl"
  BY <1>1, <1>6 DEF TradeWeight, WeightOf
<1> QED
  BY <1>2, <1>3, <1>4, <1>5, <1>6 DEF Counts

(* A tally is a sum of what its trades add.                                  *)
LEMMA TallyIs ==
    ASSUME NEW n \in Nat, NEW ts \in [1 .. n -> BacktestTrade], NEW S \in SUBSET (1 .. n),
           NEW f \in Counts
    PROVE  Tally(ts, S)[f] = SumOf(WeightOf(ts, f), S) /\ Tally(ts, S)[f] \in Int
<1> DEFINE w == WeightOf(ts, f)
           W == {i \in S : ts[i].pnl > 0}
           L == {i \in S : ~(ts[i].pnl > 0)}
           H == {i \in S : ts[i].reason = "SL_HIT"}
<1>1. DOMAIN ts = 1 .. n /\ \A i \in S : i \in 1 .. n
  OBVIOUS
<1>2. IsFiniteSet(S) /\ W \in SUBSET S /\ L \in SUBSET S /\ H \in SUBSET S
  <2>1. IsFiniteSet(1 .. n)
    BY FS_Interval
  <2> QED
    BY <2>1, FS_Subset
<1>3. \A i \in S : w[i] \in Int
  BY WeightsAre
<1>4. SumOf(w, S) \in Int
  <2> HIDE DEF w
  <2> QED
    BY <1>2, <1>3, SumOfInteger
<1>5. CASE f = "total"
  <2>1. \A i \in S : w[i] = IF i \in S THEN 1 ELSE 0
    BY <1>1, <1>5 DEF TradeWeight, WeightOf
  <2> HIDE DEF w
  <2>2. SumOf(w, S) = Cardinality(S)
    BY <1>2, <2>1, SumOfOnes
  <2> QED
    BY <1>4, <1>5, <2>2 DEF Tally, w
<1>6. CASE f = "wins"
  <2>1. \A i \in S : w[i] = IF i \in W THEN 1 ELSE 0
    BY <1>1, <1>6 DEF TradeWeight, WeightOf
  <2>2. Tally(ts, S)[f] = Cardinality(W)
    BY <1>6 DEF Tally
  <2> HIDE DEF w, W
  <2>3. SumOf(w, S) = Cardinality(W)
    BY <1>2, <2>1, SumOfOnes
  <2> QED
    BY <1>4, <2>2, <2>3 DEF w
<1>7. CASE f = "losses"
  <2>1. \A i \in S : w[i] = IF i \in L THEN 1 ELSE 0
    BY <1>1, <1>7 DEF TradeWeight, WeightOf
  <2>2. Tally(ts, S)[f] = Cardinality(S) - Cardinality(W)
    BY <1>7 DEF Tally
  <2>3. W \union L = S /\ W \cap L = {}
    OBVIOUS
  <2> HIDE DEF w, W, L
  <2>4. SumOf(w, S) = Cardinality(L)
    BY <1>2, <2>1, SumOfOnes
  <2>5. IsFiniteSet(W) /\ IsFiniteSet(L)
    BY <1>2, FS_Subset
  <2>6. Cardinality(S) = Cardinality(W) + Cardinality(L) - Cardinality(W \cap L)
    BY <2>3, <2>5, FS_Union
  <2>7. Cardinality(W) \in Nat /\ Cardinality(L) \in Nat /\ Cardinality(W \cap L) = 0
    BY <2>3, <2>5, FS_CardinalityType, FS_EmptySet
  <2>8. Tally(ts, S)[f] = Cardinality(L)
    BY <2>2, <2>6, <2>7
  <2> QED
    BY <1>4, <2>4, <2>8 DEF w
<1>8. CASE f = "sl_hits"
  <2>1. \A i \in S : w[i] = IF i \in H THEN 1 ELSE 0
    BY <1>1, <1>8 DEF TradeWeight, WeightOf
  <2>2. Tally(ts, S)[f] = Cardinality(H)
    BY <1>8 DEF Tally
  <2> HIDE DEF w, H
  <2>3. SumOf(w, S) = Cardinality(H)
    BY <1>2, <2>1, SumOfOnes
  <2> QED
    BY <1>4, <2>2, <2>3 DEF w
<1>9. CASE f = "pnl"
  <2>1. \A i \in S : w[i] = PnlsOf(ts)[i]
    BY <1>1, <1>9 DEF TradeWeight, WeightOf, PnlsOf
  <2>2. Tally(ts, S)[f] = SumOf(PnlsOf(ts), S)
    BY <1>9, SumOverIsSumOf DEF Tally
  <2> HIDE DEF w
  <2>3. SumOf(w, S) = SumOf(PnlsOf(ts), S)
    BY <1>2, <1>3, <2>1, SumOfSame
  <2> QED
    BY <1>4, <2>2, <2>3 DEF w
<1> QED
  BY <1>5, <1>6, <1>7, <1>8, <1>9 DEF Counts

LEMMA SumOfZeros ==
    ASSUME NEW S, IsFiniteSet(S), NEW f, \A x \in S : f[x] = 0
    PROVE  SumOf(f, S) = 0
<1>1. {} \in SUBSET S /\ \A x \in S : f[x] = IF x \in {} THEN 1 ELSE 0
  OBVIOUS
<1>2. SumOf(f, S) = Cardinality({})
  BY <1>1, SumOfOnes
<1> QED
  BY <1>2, FS_EmptySet

(* The parts of a breakdown by a key, over the trades at S.                  *)
PartsOf(b, ts, S, key) ==
    /\ IsFiniteSet(DOMAIN b)
    /\ \A i \in S : key[i] \in DOMAIN b
    /\ \A k \in DOMAIN b : b[k] = Tally(ts, {i \in S : key[i] = k})

(* They add up to the tally of S.                                            *)
LEMMA PartsAddUp ==
    ASSUME NEW n \in Nat, NEW ts \in [1 .. n -> BacktestTrade], NEW S \in SUBSET (1 .. n),
           NEW key, NEW b, PartsOf(b, ts, S, key), NEW f \in Counts
    PROVE  TotalIn(b, f) = Tally(ts, S)[f]
<1> DEFINE D == DOMAIN b
           h == [k \in D |-> b[k][f]]
           w == WeightOf(ts, f)
           I == {key[i] : i \in S}
           J == D \ I
           Part(k) == {i \in S : key[i] = k}
<1>1. IsFiniteSet(D) /\ I \subseteq D
  BY DEF PartsOf
<1>2. IsFiniteSet(S) /\ \A i \in S : w[i] \in Int
  <2>1. IsFiniteSet(1 .. n)
    BY FS_Interval
  <2> QED
    BY <2>1, FS_Subset, WeightsAre
<1>3. ASSUME NEW k \in D PROVE h[k] = SumOf(w, Part(k)) /\ h[k] \in Int
  <2>1. b[k] = Tally(ts, Part(k)) /\ Part(k) \in SUBSET (1 .. n)
    BY DEF PartsOf
  <2> HIDE DEF Part
  <2> QED
    BY <2>1, TallyIs
<1>4. SumOf(h, I) = SumOf(w, S)
  <2>1. Grouped(h, w, key, S)
    BY <1>1, <1>3 DEF Grouped
  <2> HIDE DEF h, w
  <2> QED
    BY <1>2, <2>1, SumOfGroups
<1>5. SumOf(h, J) = 0
  <2>1. \A k \in J : Part(k) = {} /\ k \in D
    OBVIOUS
  <2>2. SumOf(w, {}) = 0
    BY SumOfEmpty
  <2>3. \A k \in J : h[k] = 0
    BY <1>3, <2>1, <2>2
  <2>4. IsFiniteSet(J)
    BY <1>1, FS_Subset
  <2> HIDE DEF h, J
  <2> QED
    BY <2>3, <2>4, SumOfZeros
<1>6. SumOf(h, D) = SumOf(h, I) + SumOf(h, J)
  <2>1. IsFiniteSet(I) /\ IsFiniteSet(J)
    BY <1>1, FS_Subset
  <2>2. I \cap J = {} /\ I \union J = D
    BY <1>1
  <2>3. \A k \in I \union J : h[k] \in Int
    BY <1>3, <2>2
  <2> HIDE DEF h, I, J
  <2> QED
    BY <2>1, <2>2, <2>3, SumOfUnion
<1>7. TotalIn(b, f) = SumOf(h, D)
  BY SumOverIsSumOf DEF TotalIn
<1>8. SumOf(h, I) \in Int
  <2>1. SumOf(w, S) = Tally(ts, S)[f] /\ Tally(ts, S)[f] \in Int
    BY TallyIs
  <2> QED
    BY <1>4, <2>1
<1>9. SumOf(w, S) = Tally(ts, S)[f]
  BY TallyIs
<1> QED
  BY <1>4, <1>5, <1>6, <1>7, <1>8, <1>9

(* A breakdown of all trades by a key.                                       *)
ByKey(ts, key) ==
    [k \in {key[i] : i \in DOMAIN ts} |-> Tally(ts, {i \in DOMAIN ts : key[i] = k})]

LEMMA ByKeyAddsUp ==
    ASSUME NEW n \in Nat, NEW ts \in [1 .. n -> BacktestTrade], NEW key, NEW f \in Counts
    PROVE  TotalIn(ByKey(ts, key), f) = Tally(ts, DOMAIN ts)[f]
<1> DEFINE S == DOMAIN ts
           b == ByKey(ts, key)
<1>1. S = 1 .. n /\ IsFiniteSet(S) /\ S \in SUBSET (1 .. n)
  BY FS_Interval
<1>2. DOMAIN b = {key[i] : i \in S} /\ \A k \in DOMAIN b : b[k] = Tally(ts, {i \in S : key[i] = k})
  BY DEF ByKey
<1> HIDE DEF S, b
<1>3. IsFiniteSet({key[i] : i \in S})
  BY <1>1, FiniteImage
<1>4. PartsOf(b, ts, S, key)
  BY <1>2, <1>3 DEF PartsOf
<1>5. TotalIn(b, f) = Tally(ts, S)[f]
  BY <1>1, <1>4, PartsAddUp
<1> QED
  BY <1>5 DEF S, b

(* The breakdowns by one key of a trade.                                     *)
LEMMA KeyedBreakdowns ==
    ASSUME NEW n \in Nat, NEW ts \in [1 .. n -> BacktestTrade], NEW f \in Counts
    PROVE  /\ TotalIn(compute_per_symbol(ts), f) = Tally(ts, DOMAIN ts)[f]
           /\ TotalIn(compute_time_breakdowns(ts).daily, f) = Tally(ts, DOMAIN ts)[f]
           /\ TotalIn(compute_time_breakdowns(ts).monthly, f) = Tally(ts, DOMAIN ts)[f]
           /\ TotalIn(analyse_entry_times(ts), f) = Tally(ts, DOMAIN ts)[f]
           /\ TotalIn(analyse_orb_range(ts), f) = Tally(ts, DOMAIN ts)[f]
           /\ TotalIn(build_monthly_heatmap(ts), f) = Tally(ts, DOMAIN ts)[f]
<1> DEFINE syms == [i \in DOMAIN ts |-> ts[i].sym]
           days == [i \in DOMAIN ts |-> ts[i].day]
           months == [i \in DOMAIN ts |-> MonthOfTrade(ts[i])]
           entries == [i \in DOMAIN ts |-> ts[i].entry]
           ranges == [i \in DOMAIN ts |-> OrbBucket(ts[i])]
           cells == [i \in DOMAIN ts |-> <<MonthOfTrade(ts[i]), ts[i].sym>>]
<1>1. compute_per_symbol(ts) = ByKey(ts, syms)
  BY DEF compute_per_symbol, Breakdown, Bucket, ByKey
<1>2. compute_time_breakdowns(ts).daily = ByKey(ts, days)
  BY DEF compute_time_breakdowns, Breakdown, Bucket, ByKey
<1>3. compute_time_breakdowns(ts).monthly = ByKey(ts, months)
  BY DEF compute_time_breakdowns, Breakdown, Bucket, ByKey
<1>4. analyse_entry_times(ts) = ByKey(ts, entries)
  BY DEF analyse_entry_times, Breakdown, Bucket, ByKey
<1>5. analyse_orb_range(ts) = ByKey(ts, ranges)
  BY DEF analyse_orb_range, Breakdown, Bucket, ByKey
<1>6. build_monthly_heatmap(ts) = ByKey(ts, cells)
  BY DEF build_monthly_heatmap, Breakdown, Bucket, ByKey
<1> HIDE DEF syms, days, months, entries, ranges, cells
<1>7. \A key : TotalIn(ByKey(ts, key), f) = Tally(ts, DOMAIN ts)[f]
  BY ByKeyAddsUp
<1> QED
  BY <1>1, <1>2, <1>3, <1>4, <1>5, <1>6, <1>7

LEMMA DirectionsAddUp ==
    ASSUME NEW n \in Nat, NEW ts \in [1 .. n -> BacktestTrade], NEW f \in Counts
    PROVE  TotalIn(analyse_direction_split(ts), f) = Tally(ts, DOMAIN ts)[f]
<1> DEFINE key == [i \in DOMAIN ts |-> ts[i].side]
           b == analyse_direction_split(ts)
           S == DOMAIN ts
<1>1. S = 1 .. n /\ S \in SUBSET (1 .. n) /\ \A i \in S : key[i] \in {"LONG", "SHORT"}
  BY RecordIs
<1>2. /\ DOMAIN b = {"LONG", "SHORT"}
      /\ \A k \in DOMAIN b : b[k] = Tally(ts, {i \in S : key[i] = k})
  BY DEF analyse_direction_split, Bucket
<1>3. IsFiniteSet({"LONG", "SHORT"})
  <2>1. IsFiniteSet({"LONG"})
    BY FS_Singleton
  <2>2. IsFiniteSet({"LONG"} \union {"SHORT"})
    BY <2>1, FS_AddElement
  <2>3. {"LONG"} \union {"SHORT"} = {"LONG", "SHORT"}
    OBVIOUS
  <2> QED
    BY <2>2, <2>3
<1> HIDE DEF key, b, S
<1>4. PartsOf(b, ts, S, key)
  BY <1>1, <1>2, <1>3 DEF PartsOf
<1>5. TotalIn(b, f) = Tally(ts, S)[f]
  BY <1>1, <1>4, PartsAddUp
<1> QED
  BY <1>5 DEF b, S

(* The trades that entered are tallied alike in either list.                 *)
LEMMA EnteredTally ==
    ASSUME NEW all \in Seq(BacktestTrade), NEW f \in Counts
    PROVE  Tally(all, Entered(all, DOMAIN all))[f]
               = Tally(Executed(all), DOMAIN Executed(all))[f]
<1> DEFINE ts == Executed(all)
           E == Entered(all, DOMAIN all)
           u == WeightOf(all, f)
           v == WeightOf(ts, f)
<1>1. PICK n \in Nat : all \in [1 .. n -> BacktestTrade] /\ DOMAIN all = 1 .. n
  BY ListOfTrades
<1>2. PICK m, at : EnteredAt(all, ts, m, at)
  BY ExecutedAre
<1>3. /\ m \in Nat /\ Ascends(at, m, E) /\ ts = [i \in 1 .. m |-> all[at[i]]]
      /\ at \in [1 .. m -> E]
  BY <1>2 DEF EnteredAt, Ascends
<1>4. E \in SUBSET (1 .. n) /\ E \in SUBSET Int
  BY <1>1 DEF Entered
<1> HIDE DEF ts, E
<1>5. (\A i, j \in 1 .. m : at[i] = at[j] => i = j) /\ E = {at[i] : i \in 1 .. m}
  <2>1. m \in Nat /\ E \in SUBSET Int /\ Ascends(at, m, E)
    BY <1>3, <1>4
  <2>2. \A i, j \in 1 .. m : at[i] = at[j] => i = j
    BY <2>1, AscentIs
  <2>3. E = {at[i] : i \in 1 .. m}
    BY <2>1 DEF Ascends
  <2> QED
    BY <2>2, <2>3
<1>6. ts \in [1 .. m -> BacktestTrade] /\ DOMAIN ts = 1 .. m
  BY <1>1, <1>3, <1>4
<1>7. Tally(all, E)[f] = SumOf(u, E)
  BY <1>1, <1>4, TallyIs
<1>8. Tally(ts, DOMAIN ts)[f] = SumOf(v, 1 .. m)
  <2>1. 1 .. m \in SUBSET (1 .. m)
    OBVIOUS
  <2> QED
    BY <1>3, <1>6, <2>1, TallyIs
<1>9. \A i \in 1 .. m : v[i] = u[at[i]] /\ v[i] \in Int
  <2>1. \A i \in 1 .. m : v[i] \in Int
    BY <1>3, <1>6, WeightsAre
  <2>2. ASSUME NEW i \in 1 .. m PROVE v[i] = u[at[i]]
    <3>1. ts[i] = all[at[i]] /\ i \in DOMAIN ts /\ at[i] \in DOMAIN all
      BY <1>1, <1>3, <1>4, <1>6
    <3> QED
      BY <3>1 DEF WeightOf
  <2> QED
    BY <2>1, <2>2
<1>10. SumOf(u, {at[i] : i \in 1 .. m}) = SumOf(v, 1 .. m)
  <2> DEFINE S == 1 .. m
  <2>1. IsFiniteSet(S)
    BY <1>3, FS_Interval
  <2>2. (\A i, j \in S : at[i] = at[j] => i = j) /\ \A i \in S : v[i] = u[at[i]] /\ v[i] \in Int
    BY <1>5, <1>9
  <2> HIDE DEF S, u, v
  <2>3. SumOf(u, {at[i] : i \in S}) = SumOf(v, S)
    BY <2>1, <2>2, SumOfImage
  <2> QED
    BY <2>3 DEF S
<1> QED
  BY <1>5, <1>7, <1>8, <1>10 DEF ts, E

(* Each group of days counts the trades that entered on them.                *)
LEMMA ConditionsAddUp ==
    ASSUME NEW all \in Seq(BacktestTrade), NEW f \in Counts
    PROVE  TotalIn(MarketConditions(all), f)
               = Tally(Executed(all), DOMAIN Executed(all))[f]
<1> DEFINE Condition(t) ==
               classify_day(all, Bucket(all, DOMAIN all, TradingDate, TradingDate(t)))
           key == [i \in DOMAIN all |-> Condition(all[i])]
           b == MarketConditions(all)
           E == Entered(all, DOMAIN all)
<1>1. PICK n \in Nat : all \in [1 .. n -> BacktestTrade] /\ DOMAIN all = 1 .. n
  BY ListOfTrades
<1>2. b = [c \in {Condition(all[i]) : i \in DOMAIN all} |->
              Tally(all, {i \in E : Condition(all[i]) = c})]
  <2>1. ASSUME NEW c
        PROVE  {i \in {j \in DOMAIN all : Condition(all[j]) = c} : all[i].reason # "NO_BREAKOUT"}
                   = {i \in E : Condition(all[i]) = c}
    <3> HIDE DEF Condition
    <3> QED
      BY DEF Entered
  <2>2. b = [c \in {Condition(all[i]) : i \in DOMAIN all} |->
                Tally(all, {i \in {j \in DOMAIN all : Condition(all[j]) = c} :
                               all[i].reason # "NO_BREAKOUT"})]
    BY DEF MarketConditions, aggregate_condition, Entered, Bucket
  <2> HIDE DEF Condition, b
  <2> QED
    BY <2>1, <2>2
<1>3. \A i \in DOMAIN all : key[i] = Condition(all[i])
  OBVIOUS
<1> HIDE DEF Condition, key, b
<1>4. DOMAIN b = {key[i] : i \in DOMAIN all}
  BY <1>2, <1>3
<1>5. E \subseteq DOMAIN all
  BY DEF Entered
<1> HIDE DEF E
<1>6. \A k \in DOMAIN b : b[k] = Tally(all, {i \in E : key[i] = k})
  <2> TAKE k \in DOMAIN b
  <2>1. {i \in E : key[i] = k} = {i \in E : Condition(all[i]) = k}
    BY <1>3, <1>5
  <2> QED
    BY <1>2, <2>1
<1>7. IsFiniteSet(DOMAIN b)
  <2> DEFINE S == DOMAIN all
  <2>1. IsFiniteSet(S)
    BY <1>1, FS_Interval
  <2> HIDE DEF S
  <2>2. IsFiniteSet({key[i] : i \in S})
    BY <2>1, FiniteImage
  <2> QED
    BY <1>4, <2>2 DEF S
<1>8. PartsOf(b, all, E, key)
  BY <1>4, <1>5, <1>6, <1>7 DEF PartsOf
<1>9. E \in SUBSET (1 .. n)
  BY <1>1, <1>5
<1>10. TotalIn(b, f) = Tally(all, E)[f]
  BY <1>1, <1>8, <1>9, PartsAddUp
<1> QED
  BY <1>10, EnteredTally DEF b, E

(* The first bucket that holds a minute.                                     *)
LEMMA BucketIs ==
    ASSUME NEW n \in Nat, NEW buckets, DOMAIN buckets = 1 .. n, NEW minute
    PROVE  /\ BucketOf(buckets, minute) \in 0 .. n
           /\ BucketOf(buckets, minute) = 0 <=> \A i \in 1 .. n : ~InBucket(buckets[i], minute)
<1> DEFINE hits == {i \in DOMAIN buckets : InBucket(buckets[i], minute)}
<1>1. hits \in SUBSET Nat /\ IsFiniteSet(hits) /\ hits \subseteq 1 .. n
  <2>1. IsFiniteSet(1 .. n)
    BY FS_Interval
  <2>2. hits \in SUBSET (1 .. n)
    OBVIOUS
  <2> HIDE DEF hits
  <2>3. IsFiniteSet(hits)
    BY <2>1, <2>2, FS_Subset
  <2> QED
    BY <2>2, <2>3
<1>2. BucketOf(buckets, minute) = IF hits = {} THEN 0 ELSE Min(hits)
  BY DEF BucketOf
<1>3. hits # {} => Min(hits) \in 1 .. n
  <2> HIDE DEF hits
  <2>1. ASSUME hits # {} PROVE Min(hits) \in hits
    <3>1. \E m \in hits : \A y \in hits : m <= y
      BY <1>1, <2>1, LeastExists
    <3> QED
      BY <3>1 DEF Min
  <2> QED
    BY <1>1, <2>1
<1>4. hits = {} <=> \A i \in 1 .. n : ~InBucket(buckets[i], minute)
  OBVIOUS
<1> HIDE DEF hits
<1> QED
  BY <1>2, <1>3, <1>4

LEMMA FiveAreFinite == IsFiniteSet(1 .. 5)
<1> DEFINE n == 5
<1>1. n \in Int
  OBVIOUS
<1> HIDE DEF n
<1>2. IsFiniteSet(1 .. n)
  BY <1>1, FS_Interval
<1> QED
  BY <1>2 DEF n

(* The entry window ends at 12:00 but the last bucket a minute earlier.      *)
LEMMA EntryBucketIs ==
    ASSUME NEW t \in BacktestTrade, t.reason # "NO_BREAKOUT"
    PROVE  EntryBucket(t) \in 0 .. 5 /\ (EntryBucket(t) = 0 <=> t.entry > 389)
<1>1. DOMAIN TimeBuckets = 1 .. 5
  BY DEF TimeBuckets
<1>2. /\ EntryBucket(t) \in 0 .. 5
      /\ EntryBucket(t) = 0 <=> \A i \in 1 .. 5 : ~InBucket(TimeBuckets[i], t.entry)
  BY <1>1, BucketIs DEF EntryBucket
<1>3. t.entry \in Int /\ t.entry >= 240
  BY RecordIs
<1>4. (\A i \in 1 .. 5 : ~InBucket(TimeBuckets[i], t.entry)) <=> t.entry > 389
  <2> DEFINE e == t.entry
             Free(i) == ~InBucket(TimeBuckets[i], e)
  <2>1. /\ Free(1) <=> ~(240 <= e /\ e <= 269)
        /\ Free(2) <=> ~(270 <= e /\ e <= 299)
        /\ Free(3) <=> ~(300 <= e /\ e <= 329)
        /\ Free(4) <=> ~(330 <= e /\ e <= 359)
        /\ Free(5) <=> ~(360 <= e /\ e <= 389)
    BY DEF TimeBuckets, InBucket
  <2> HIDE DEF Free
  <2>2. (\A i \in 1 .. 5 : Free(i)) <=> Free(1) /\ Free(2) /\ Free(3) /\ Free(4) /\ Free(5)
    <3>1. 1 \in 1 .. 5 /\ 2 \in 1 .. 5 /\ 3 \in 1 .. 5 /\ 4 \in 1 .. 5 /\ 5 \in 1 .. 5
      OBVIOUS
    <3>2. \A i \in 1 .. 5 : i = 1 \/ i = 2 \/ i = 3 \/ i = 4 \/ i = 5
      OBVIOUS
    <3> QED
      BY <3>1, <3>2
  <2> HIDE DEF e
  <2>3. e \in Int /\ e >= 240
    BY <1>3 DEF e
  <2>4. Free(1) /\ Free(2) /\ Free(3) /\ Free(4) /\ Free(5) <=> e > 389
    BY <2>1, <2>3
  <2> QED
    BY <2>2, <2>4 DEF Free, e
<1> QED
  BY <1>2, <1>4

(* Every stop is hit between the open of the window and the square-off.      *)
LEMMA StopBucketIs ==
    ASSUME NEW t \in BacktestTrade, t.reason = "SL_HIT"
    PROVE  BucketOf(SlBuckets, t.exit) \in 1 .. 5
<1>1. DOMAIN SlBuckets = 1 .. 5
  BY DEF SlBuckets
<1>2. /\ BucketOf(SlBuckets, t.exit) \in 0 .. 5
      /\ BucketOf(SlBuckets, t.exit) = 0 <=> \A i \in 1 .. 5 : ~InBucket(SlBuckets[i], t.exit)
  BY <1>1, BucketIs
<1> DEFINE e == t.exit
<1>3. e \in Int /\ 240 <= e /\ e <= 585
  BY RecordIs
<1> HIDE DEF e
<1>4. /\ InBucket(SlBuckets[1], e) <=> 240 <= e /\ e <= 269
      /\ InBucket(SlBuckets[2], e) <=> 270 <= e /\ e <= 299
      /\ InBucket(SlBuckets[3], e) <=> 300 <= e /\ e <= 329
      /\ InBucket(SlBuckets[4], e) <=> 330 <= e /\ e <= 359
      /\ InBucket(SlBuckets[5], e) <=> 360 <= e /\ e <= 585
  BY DEF SlBuckets, InBucket
<1>5. \/ 240 <= e /\ e <= 269
      \/ 270 <= e /\ e <= 299
      \/ 300 <= e /\ e <= 329
      \/ 330 <= e /\ e <= 359
      \/ 360 <= e /\ e <= 585
  BY <1>3
<1>6. 1 \in 1 .. 5 /\ 2 \in 1 .. 5 /\ 3 \in 1 .. 5 /\ 4 \in 1 .. 5 /\ 5 \in 1 .. 5
  OBVIOUS
<1>7. \E i \in 1 .. 5 : InBucket(SlBuckets[i], e)
  BY <1>4, <1>5, <1>6
<1>8. BucketOf(SlBuckets, t.exit) # 0
  BY <1>2, <1>7 DEF e
<1> QED
  BY <1>2, <1>8

LEMMA TimesAddUp ==
    ASSUME NEW all \in Seq(BacktestTrade)
    PROVE  LET ts == Executed(all)
               time == TimeAnalytics(all)
           IN  /\ TotalIn(time.buckets, "total") + time.unclassified = Cardinality(DOMAIN ts)
               /\ time.unclassified = Cardinality({i \in DOMAIN ts : ts[i].entry > 389})
<1> DEFINE ts == Executed(all)
           time == TimeAnalytics(all)
           key == [i \in DOMAIN ts |-> EntryBucket(ts[i])]
           S == {i \in DOMAIN ts : key[i] # 0}
           Z == {i \in DOMAIN ts : key[i] = 0}
           b == time.buckets
<1>1. ts \in Seq(BacktestTrade) /\ \A i \in DOMAIN ts : ts[i].reason # "NO_BREAKOUT"
  <2>1. ts \in Seq(BacktestTrade)
    BY ExecutedInOrder
  <2>2. PICK m, at : EnteredAt(all, ts, m, at)
    BY ExecutedAre
  <2> HIDE DEF ts
  <2>3. /\ DOMAIN ts = 1 .. m /\ at \in [1 .. m -> Entered(all, DOMAIN all)]
        /\ \A i \in 1 .. m : ts[i] = all[at[i]]
    BY <2>2 DEF EnteredAt, Ascends
  <2> QED
    BY <2>1, <2>3 DEF Entered
<1>2. DOMAIN b = 1 .. 5 /\ \A k \in 1 .. 5 : b[k] = Tally(ts, {i \in DOMAIN ts : EntryBucket(ts[i]) = k})
  <2>1. DOMAIN TimeBuckets = 1 .. 5
    BY DEF TimeBuckets
  <2> QED
    BY <2>1 DEF TimeAnalytics, compute_bucket_stats, Bucket
<1>3. time.unclassified = Cardinality({i \in DOMAIN ts : EntryBucket(ts[i]) = 0})
  BY DEF TimeAnalytics, Bucket
<1> HIDE DEF ts, time, b
<1>4. PICK n \in Nat : ts \in [1 .. n -> BacktestTrade] /\ DOMAIN ts = 1 .. n
  BY <1>1, ListOfTrades
<1>5. ASSUME NEW i \in 1 .. n
      PROVE  /\ key[i] = EntryBucket(ts[i]) /\ key[i] \in 0 .. 5
             /\ key[i] = 0 <=> ts[i].entry > 389
  <2>1. ts[i] \in BacktestTrade /\ ts[i].reason # "NO_BREAKOUT" /\ key[i] = EntryBucket(ts[i])
    BY <1>1, <1>4
  <2> HIDE DEF key
  <2> QED
    BY <2>1, EntryBucketIs
<1> HIDE DEF key
<1>6. PartsOf(b, ts, S, key)
  <2>1. IsFiniteSet(1 .. 5)
    BY FiveAreFinite
  <2>2. \A i \in S : key[i] \in 1 .. 5
    BY <1>4, <1>5
  <2>3. ASSUME NEW k \in 1 .. 5 PROVE {i \in DOMAIN ts : EntryBucket(ts[i]) = k} = {i \in S : key[i] = k}
    BY <1>4, <1>5
  <2> HIDE DEF S
  <2>4. ASSUME NEW k \in DOMAIN b PROVE b[k] = Tally(ts, {i \in S : key[i] = k})
    <3>1. k \in 1 .. 5
      BY <1>2
    <3>2. {i \in DOMAIN ts : EntryBucket(ts[i]) = k} = {i \in S : key[i] = k}
      BY <2>3, <3>1
    <3> QED
      BY <1>2, <3>1, <3>2
  <2> QED
    BY <1>2, <2>1, <2>2, <2>4 DEF PartsOf
<1>7. S \in SUBSET (1 .. n) /\ Z \in SUBSET (1 .. n) /\ S \union Z = DOMAIN ts /\ S \cap Z = {}
  BY <1>4
<1>8. time.unclassified = Cardinality(Z)
  <2>1. {i \in DOMAIN ts : EntryBucket(ts[i]) = 0} = Z
    BY <1>4, <1>5
  <2> QED
    BY <1>3, <2>1
<1>9. Z = {i \in DOMAIN ts : ts[i].entry > 389}
  BY <1>4, <1>5
<1> HIDE DEF S, Z
<1>10. TotalIn(b, "total") = Cardinality(S)
  <2>1. "total" \in Counts
    BY DEF Counts
  <2>2. TotalIn(b, "total") = Tally(ts, S)["total"]
    BY <1>4, <1>6, <1>7, <2>1, PartsAddUp
  <2>3. Tally(ts, S)["total"] = Cardinality(S)
    BY DEF Tally
  <2> QED
    BY <2>2, <2>3
<1>11. Cardinality(S) + Cardinality(Z) = Cardinality(DOMAIN ts)
  <2>1. IsFiniteSet(1 .. n)
    BY FS_Interval
  <2>2. IsFiniteSet(S) /\ IsFiniteSet(Z)
    BY <1>7, <2>1, FS_Subset
  <2>3. Cardinality(S \union Z) = Cardinality(S) + Cardinality(Z) - Cardinality(S \cap Z)
    BY <2>2, FS_Union
  <2>4. Cardinality(S) \in Nat /\ Cardinality(Z) \in Nat /\ Cardinality(S \cap Z) = 0
    BY <1>7, <2>2, FS_CardinalityType, FS_EmptySet
  <2> QED
    BY <1>7, <2>3, <2>4
<1>12. TotalIn(b, "total") + time.unclassified = Cardinality(DOMAIN ts)
  BY <1>8, <1>10, <1>11
<1> QED
  BY <1>8, <1>9, <1>12 DEF ts, time, b

(* The stopped trades.                                                       *)
LEMMA StopsAddUp ==
    ASSUME NEW n \in Nat, NEW ts \in [1 .. n -> BacktestTrade]
    PROVE  LET sl == detect_fake_breakouts(ts)
           IN  /\ TotalIn(analyse_sl_timing(ts, sl), "total") = Tally(ts, DOMAIN ts).sl_hits
               /\ count_opposite_side_violations(ts) = Tally(ts, DOMAIN ts).sl_hits
               /\ find_sl_cluster_days(ts, sl).max_hits <= Tally(ts, DOMAIN ts).sl_hits
<1> DEFINE sl == detect_fake_breakouts(ts)
           key == [i \in DOMAIN ts |-> BucketOf(SlBuckets, ts[i].exit)]
           b == analyse_sl_timing(ts, sl)
<1>1. DOMAIN ts = 1 .. n /\ sl \in SUBSET (1 .. n) /\ \A i \in sl : ts[i].reason = "SL_HIT"
  BY DEF detect_fake_breakouts
<1>2. Tally(ts, DOMAIN ts).sl_hits = Cardinality(sl)
  BY DEF Tally, detect_fake_breakouts
<1> HIDE DEF sl
<1>3. DOMAIN b = 1 .. 5 /\ \A k \in 1 .. 5 : b[k] = Tally(ts, {i \in sl : BucketOf(SlBuckets, ts[i].exit) = k})
  <2>1. DOMAIN SlBuckets = 1 .. 5
    BY DEF SlBuckets
  <2> QED
    BY <2>1 DEF analyse_sl_timing, Bucket
<1> HIDE DEF b
<1>4. ASSUME NEW i \in sl PROVE key[i] = BucketOf(SlBuckets, ts[i].exit) /\ key[i] \in 1 .. 5
  <2>1. ts[i] \in BacktestTrade /\ ts[i].reason = "SL_HIT" /\ key[i] = BucketOf(SlBuckets, ts[i].exit)
    BY <1>1
  <2> HIDE DEF key
  <2> QED
    BY <2>1, StopBucketIs
<1> HIDE DEF key
<1>5. PartsOf(b, ts, sl, key)
  <2>1. IsFiniteSet(1 .. 5)
    BY FiveAreFinite
  <2>2. ASSUME NEW k \in 1 .. 5
        PROVE  {i \in sl : BucketOf(SlBuckets, ts[i].exit) = k} = {i \in sl : key[i] = k}
    BY <1>4
  <2>3. \A k \in DOMAIN b : b[k] = Tally(ts, {i \in sl : key[i] = k})
    BY <1>3, <2>2
  <2> QED
    BY <1>3, <1>4, <2>1, <2>3 DEF PartsOf
<1>6. TotalIn(b, "total") = Cardinality(sl)
  <2>1. "total" \in Counts
    BY DEF Counts
  <2>2. TotalIn(b, "total") = Tally(ts, sl)["total"]
    BY <1>1, <1>5, <2>1, PartsAddUp
  <2>3. Tally(ts, sl)["total"] = Cardinality(sl)
    BY DEF Tally
  <2> QED
    BY <2>2, <2>3
<1>7. IsFiniteSet(sl)
  <2>1. IsFiniteSet(1 .. n)
    BY FS_Interval
  <2> QED
    BY <1>1, <2>1, FS_Subset
<1>8. find_sl_cluster_days(ts, sl).max_hits <= Cardinality(sl)
  <2> DEFINE dates == [i \in DOMAIN ts |-> ts[i].day]
             D == {dates[i] : i \in sl}
             On(d) == {i \in sl : ts[i].day = d}
             hits == [d \in D |-> Cardinality(On(d))]
             H == {hits[d] : d \in D}
  <2>1. find_sl_cluster_days(ts, sl).max_hits = Max({0} \union H)
    <3>1. {ts[i].day : i \in sl} = D
      BY <1>1
    <3>2. find_sl_cluster_days(ts, sl).max_hits
              = Max({0} \union
                    {[e \in {ts[i].day : i \in sl} |-> Cardinality(On(e))][d] :
                         d \in {ts[i].day : i \in sl}})
      BY DEF find_sl_cluster_days, Bucket
    <3> HIDE DEF D, On
    <3> QED
      BY <3>1, <3>2
  <2>2. IsFiniteSet(D)
    <3> HIDE DEF dates
    <3> QED
      BY <1>7, FiniteImage
  <2>3. \A d \in D : hits[d] \in Int /\ hits[d] <= Cardinality(sl)
    <3> SUFFICES ASSUME NEW d \in D PROVE hits[d] \in Int /\ hits[d] <= Cardinality(sl)
      OBVIOUS
    <3>1. On(d) \in SUBSET sl /\ hits[d] = Cardinality(On(d))
      OBVIOUS
    <3> HIDE DEF On, hits, D
    <3>2. IsFiniteSet(On(d)) /\ Cardinality(On(d)) <= Cardinality(sl)
      BY <1>7, <3>1, FS_Subset
    <3> QED
      BY <3>1, <3>2, FS_CardinalityType
  <2> HIDE DEF D, hits
  <2>4. IsFiniteSet(H)
    BY <2>2, FiniteImage
  <2>5. IsFiniteSet({0} \union H)
    BY <2>4, FS_Union, FS_Singleton
  <2>6. {0} \union H # {} /\ {0} \union H \subseteq Int
    BY <2>3
  <2>7. Max({0} \union H) \in {0} \union H
    BY <2>5, <2>6, MaxExists
  <2>8. Cardinality(sl) >= 0
    BY <1>7, FS_CardinalityType
  <2> QED
    BY <2>1, <2>3, <2>7, <2>8
<1>9. count_opposite_side_violations(ts) = Tally(ts, DOMAIN ts).sl_hits
  BY DEF count_opposite_side_violations
<1> QED
  BY <1>2, <1>6, <1>8, <1>9 DEF sl, b

(* Trades without an entry that are all of the first day are stored under    *)
(* their own day.                                                            *)
LEMMA ChoppyDays ==
    ASSUME NEW all, \A i \in DOMAIN all : all[i].reason = "NO_BREAKOUT" => all[i].day = FromDay
    PROVE  analyse_choppy_days(all) = DaysWithoutBreakouts(all)
<1>1. \A i \in DOMAIN all : TradingDate(all[i]) = all[i].day
  BY DEF TradingDate
<1>2. {TradingDate(all[i]) : i \in DOMAIN all} = {all[i].day : i \in DOMAIN all}
  BY <1>1
<1>3. \A d : Bucket(all, DOMAIN all, TradingDate, d) = {i \in DOMAIN all : all[i].day = d}
  BY <1>1 DEF Bucket
<1> QED
  BY <1>2, <1>3 DEF analyse_choppy_days, DaysWithoutBreakouts

LEMMA AveragesAddUp ==
    ASSUME NEW n \in Nat, NEW ts \in [1 .. n -> BacktestTrade]
    PROVE  LET averages == avg_win_avg_loss(PnlsOf(ts))
               tally == Tally(ts, DOMAIN ts)
           IN  averages.win[1] + averages.loss[1] = tally.pnl /\ averages.win[2] = tally.wins
<1> DEFINE s == PnlsOf(ts)
           W == {i \in DOMAIN s : s[i] > 0}
           L == {i \in DOMAIN s : s[i] <= 0}
           averages == avg_win_avg_loss(s)
           tally == Tally(ts, DOMAIN ts)
<1>1. s \in [1 .. n -> Int] /\ DOMAIN s = DOMAIN ts /\ \A i \in DOMAIN ts : s[i] = ts[i].pnl
  BY PnlsAre DEF PnlsOf
<1>2. averages.win[1] = SumOf(s, W) /\ averages.loss[1] = SumOf(s, L) /\ averages.win[2] = Cardinality(W)
  BY SumOverIsSumOf DEF avg_win_avg_loss
<1>3. tally.pnl = SumOf(s, DOMAIN ts) /\ tally.wins = Cardinality({i \in DOMAIN ts : ts[i].pnl > 0})
  BY SumOverIsSumOf DEF Tally
<1> HIDE DEF s, averages, tally
<1>4. W = {i \in DOMAIN ts : ts[i].pnl > 0}
  BY <1>1
<1>5. SumOf(s, W \union L) = SumOf(s, W) + SumOf(s, L)
  <2>1. W \in SUBSET (1 .. n) /\ L \in SUBSET (1 .. n) /\ W \cap L = {}
    BY <1>1
  <2>2. IsFiniteSet(1 .. n)
    BY FS_Interval
  <2> HIDE DEF W, L
  <2>3. IsFiniteSet(W) /\ IsFiniteSet(L) /\ \A i \in W \union L : s[i] \in Int
    BY <1>1, <2>1, <2>2, FS_Subset
  <2> QED
    BY <2>1, <2>3, SumOfUnion
<1>6. W \union L = DOMAIN ts
  BY <1>1
<1> HIDE DEF W, L
<1> QED
  BY <1>2, <1>3, <1>4, <1>5, <1>6 DEF s, averages, tally

LEMMA HigherThresholdsKeepLess ==
    ASSUME NEW n \in Nat, NEW ts \in [1 .. n -> BacktestTrade],
           NEW p \in Thresholds, NEW q \in Thresholds, p <= q
    PROVE  analyse_probability_sensitivity(ts)[q].total
               <= analyse_probability_sensitivity(ts)[p].total
<1> DEFINE AtLeast(x) == {i \in DOMAIN ts : ts[i].prob >= x}
<1>1. \A x \in Thresholds : analyse_probability_sensitivity(ts)[x].total = Cardinality(AtLeast(x))
  BY DEF analyse_probability_sensitivity, Tally
<1>2. AtLeast(q) \in SUBSET AtLeast(p) /\ AtLeast(p) \in SUBSET (1 .. n)
  BY RecordIs DEF Thresholds
<1>3. IsFiniteSet(1 .. n)
  BY FS_Interval
<1> HIDE DEF AtLeast
<1>4. IsFiniteSet(AtLeast(p))
  BY <1>2, <1>3, FS_Subset
<1>5. Cardinality(AtLeast(q)) <= Cardinality(AtLeast(p))
  BY <1>2, <1>4, FS_Subset
<1> QED
  BY <1>1, <1>5

LEMMA BreakdownsAgree ==
    ASSUME trades \in Seq(BacktestTrade)
    PROVE  BreakdownsAddUp
<1> DEFINE ts == Executed(trades)
           tally == Tally(ts, DOMAIN ts)
           sl == detect_fake_breakouts(ts)
<1>1. ts \in Seq(BacktestTrade)
  BY ExecutedInOrder
<1>2. PICK n \in Nat : ts \in [1 .. n -> BacktestTrade] /\ DOMAIN ts = 1 .. n
  BY <1>1, ListOfTrades
<1>3. \A f \in Counts : TotalIn(MarketConditions(trades), f) = tally[f]
  BY ConditionsAddUp
<1>4. LET time == TimeAnalytics(trades)
      IN  /\ TotalIn(time.buckets, "total") + time.unclassified = Cardinality(DOMAIN ts)
          /\ time.unclassified = Cardinality({i \in DOMAIN ts : ts[i].entry > 389})
  BY TimesAddUp
<1>5. (\A i \in DOMAIN trades : trades[i].reason = "NO_BREAKOUT" => trades[i].day = FromDay)
        => analyse_choppy_days(trades) = DaysWithoutBreakouts(trades)
  BY ChoppyDays
<1>6. /\ calculate(trades).tally = tally
      /\ calculate(trades).per_symbol = compute_per_symbol(ts)
      /\ calculate(trades).time = compute_time_breakdowns(ts)
  BY DEF calculate
<1>7. tally.total = Cardinality(DOMAIN ts) /\ DOMAIN tally = Counts
  BY DEF Tally, Counts
<1> HIDE DEF ts, tally, sl
<1>8. ASSUME NEW f \in Counts
      PROVE  /\ TotalIn(compute_per_symbol(ts), f) = tally[f]
             /\ TotalIn(compute_time_breakdowns(ts).daily, f) = tally[f]
             /\ TotalIn(compute_time_breakdowns(ts).monthly, f) = tally[f]
             /\ TotalIn(analyse_entry_times(ts), f) = tally[f]
             /\ TotalIn(analyse_orb_range(ts), f) = tally[f]
             /\ TotalIn(build_monthly_heatmap(ts), f) = tally[f]
             /\ TotalIn(analyse_direction_split(ts), f) = tally[f]
  BY <1>2, KeyedBreakdowns, DirectionsAddUp DEF tally
<1>9. /\ TotalIn(analyse_sl_timing(ts, sl), "total") = tally.sl_hits
      /\ count_opposite_side_violations(ts) = tally.sl_hits
      /\ find_sl_cluster_days(ts, sl).max_hits <= tally.sl_hits
  BY <1>2, StopsAddUp DEF tally, sl
<1>10. LET averages == avg_win_avg_loss(PnlsOf(ts))
       IN  averages.win[1] + averages.loss[1] = tally.pnl /\ averages.win[2] = tally.wins
  BY <1>2, AveragesAddUp DEF tally
<1>11. \A p, q \in Thresholds : p <= q =>
          analyse_probability_sensitivity(ts)[q].total
              <= analyse_probability_sensitivity(ts)[p].total
  BY <1>2, HigherThresholdsKeepLess
<1>12. identify_high_risk_symbols(ts) \subseteq DOMAIN compute_per_symbol(ts)
  BY DEF identify_high_risk_symbols
<1> QED
  BY <1>3, <1>4, <1>5, <1>6, <1>7, <1>8, <1>9, <1>10, <1>11, <1>12
     DEF BreakdownsAddUp, ts, sl

(* The order of the terms does not change a sum.                             *)
LEMMA SumReordered ==
    ASSUME NEW S, IsFiniteSet(S), NEW p, \A x, y \in S : p[x] = p[y] => x = y,
           NEW f, NEW h, \A x \in S : p[x] \in S /\ h[x] = f[p[x]] /\ h[x] \in Int
    PROVE  SumOf(f, S) = SumOf(h, S)
<1>1. {p[x] : x \in S} \in SUBSET S
  OBVIOUS
<1>2. /\ IsFiniteSet({p[x] : x \in S})
      /\ Cardinality({p[x] : x \in S}) = Cardinality(S)
  BY FiniteImage
<1>3. {p[x] : x \in S} = S
  <2> DEFINE I == {p[x] : x \in S}
  <2>1. I \in SUBSET S /\ Cardinality(I) = Cardinality(S)
    BY <1>1, <1>2
  <2> HIDE DEF I
  <2>2. I = S
    BY <2>1, FS_Subset
  <2> QED
    BY <2>2 DEF I
<1>4. SumOf(f, {p[x] : x \in S}) = SumOf(h, S)
  BY SumOfImage
<1> QED
  BY <1>3, <1>4

(* What one replay of n results in some order reports.                       *)
Replayed(pnls, p, n) == [i \in 1 .. n |-> pnls[p[i]]]
Once(p, n) == \A i, j \in 1 .. n : p[i] = p[j] => i = j

LEMMA ReplayIs ==
    ASSUME NEW n \in Nat, NEW pnls \in [1 .. n -> Int], NEW p \in [1 .. n -> 1 .. n],
           NEW c \in Int, NEW r, r = simulate_one(Replayed(pnls, p, n), c)
    PROVE  /\ r \in SimState /\ c - r.min_equity <= r.dd
           /\ Once(p, n) => r.equity = c + Total(pnls)
<1> DEFINE s == Replayed(pnls, p, n)
           lv == Levels(s, n)
<1>1. s \in [1 .. n -> Int]
  BY DEF Replayed
<1> HIDE DEF s
<1>2. /\ r \in SimState /\ r.equity = c + Total(s) /\ IsFall(r.dd, lv, n)
      /\ \E q \in Int : r.min_equity = c + q /\ IsTrough(q, lv, n)
  BY <1>1, SimulateIs DEF s
<1>3. lv \in [0 .. n -> Int] /\ lv[0] = 0
  BY <1>1, LevelsAre
<1> HIDE DEF lv
<1>4. c - r.min_equity <= r.dd
  <2>1. PICK q \in Int : r.min_equity = c + q /\ IsTrough(q, lv, n)
    BY <1>2
  <2>2. PICK j \in 0 .. n : q = lv[j]
    BY <2>1 DEF IsTrough
  <2>3. lv[0] - lv[j] <= r.dd
    <3>1. 0 \in 0 .. n /\ j \in 0 .. n
      OBVIOUS
    <3> QED
      BY <1>2, <3>1 DEF IsFall
  <2>4. r.dd \in Int
    BY <1>2 DEF SimState
  <2> QED
    BY <1>3, <2>1, <2>2, <2>3, <2>4
<1>5. ASSUME Once(p, n) PROVE Total(s) = Total(pnls)
  <2> DEFINE S == 1 .. n
  <2> DEFINE q == p
             f == pnls
  <2>2. \A i \in S : q[i] \in S /\ s[i] = f[q[i]] /\ s[i] \in Int
    BY <1>1 DEF s, Replayed
  <2>3. Total(s) = SumOf(s, S) /\ Total(pnls) = SumOf(pnls, S)
    <3>1. DOMAIN s = S /\ DOMAIN pnls = S
      BY <1>1
    <3> QED
      BY <3>1, SumOverIsSumOf DEF Total
  <2>1. IsFiniteSet(S) /\ \A i, j \in S : q[i] = q[j] => i = j
    BY <1>5, FS_Interval DEF Once
  <2> HIDE DEF S, q, f
  <2>4. SumOf(f, S) = SumOf(s, S)
    BY <2>1, <2>2, SumReordered
  <2> QED
    BY <2>3, <2>4 DEF f
<1> QED
  BY <1>2, <1>4, <1>5

(* Ruin and sufficient capital, of numbers.                                  *)
LEMMA RuinIs ==
    ASSUME NEW c \in Nat \ {0}, NEW th \in 1 .. 100, NEW low \in Int, NEW dd \in Int,
           NEW p95 \in Int, c - low <= dd
    PROVE  /\ low * 100 <= c * th => dd * 100 >= c * (100 - th)
           /\ th < 50 /\ dd * 100 <= p95 /\ c * th >= p95 => low * 100 > c * th
<1> DEFINE x == c * th
<1>1. x \in Int /\ c * (100 - th) = 100 * c - x
  OBVIOUS
<1>2. th < 50 => 100 * c - 2 * x > 0
  <2>1. 100 * c - 2 * x = c * (100 - 2 * th)
    OBVIOUS
  <2>2. th < 50 => 100 - 2 * th \in Nat \ {0}
    OBVIOUS
  <2> DEFINE y == 100 - 2 * th
  <2> HIDE DEF y
  <2>3. y \in Nat \ {0} => c * y > 0
    OBVIOUS
  <2> QED
    BY <2>1, <2>2, <2>3 DEF y
<1> HIDE DEF x
<1>3. low * 100 <= x => dd * 100 >= 100 * c - x
  BY <1>1
<1>4. th < 50 /\ dd * 100 <= p95 /\ x >= p95 => low * 100 > x
  BY <1>1, <1>2
<1> QED
  BY <1>1, <1>3, <1>4 DEF x

(* Between two values, by hundredths.                                        *)
Between(a, b, f) == a * (100 - f) + b * f

LEMMA BetweenIs ==
    ASSUME NEW a \in Int, NEW b \in Int, a <= b, NEW f \in 0 .. 99
    PROVE  /\ Between(a, b, f) \in Int
           /\ 100 * a <= Between(a, b, f) /\ Between(a, b, f) <= 100 * b
           /\ \A g \in 0 .. 99 : f <= g => Between(a, b, f) <= Between(a, b, g)
<1> DEFINE d == b - a
<1>1. d \in Nat
  OBVIOUS
<1>2. ASSUME NEW g \in 0 .. 99 PROVE Between(a, b, g) = 100 * a + d * g
  BY DEF Between
<1>3. 100 * b = 100 * a + d * 100
  OBVIOUS
<1> HIDE DEF d
<1>4. ASSUME NEW u \in Nat, NEW v \in Nat, u <= v PROVE d * u <= d * v /\ d * u \in Nat
  <2>1. d * v = d * u + d * (v - u)
    BY <1>1
  <2>2. d * (v - u) >= 0
    <3> DEFINE w == v - u
    <3>1. w \in Nat
      BY <1>4
    <3> HIDE DEF w
    <3>2. d * w >= 0
      BY <1>1, <3>1
    <3> QED
      BY <3>2 DEF w
  <2>3. d * u \in Nat /\ d * (v - u) \in Int
    BY <1>1
  <2> QED
    BY <2>1, <2>2, <2>3
<1>5. d * f >= 0 /\ d * f \in Nat /\ d * f <= d * 100
  BY <1>1, <1>4
<1>6. \A g \in 0 .. 99 : f <= g => d * f <= d * g /\ d * g \in Nat
  BY <1>4
<1> QED
  BY <1>1, <1>2, <1>3, <1>5, <1>6

(* Percentiles of a list of numbers.                                         *)
LEMMA ValuesSorted ==
    ASSUME NEW m \in Nat, NEW data \in [1 .. m -> Int]
    PROVE  LET order == SortedBy(DOMAIN data, data)
               sorted == [i \in DOMAIN order |-> data[order[i]]]
           IN  /\ sorted \in [1 .. m -> Int]
               /\ \A i, j \in 1 .. m : i <= j => sorted[i] <= sorted[j]
               /\ \A i \in 1 .. m : sorted[i] \in ValuesOf(data)
<1> DEFINE S == 1 .. m
           order == SortedBy(S, data)
           sorted == [i \in DOMAIN order |-> data[order[i]]]
<1>1. IsFiniteSet(S) /\ Cardinality(S) = m /\ DOMAIN data = S
  BY FS_Interval
<1>2. Enumerates(order, S) /\ Sorted(order, data)
  <2>1. \A x \in S : data[x] \in Int
    OBVIOUS
  <2> HIDE DEF S
  <2> QED
    BY <1>1, <2>1, SortedByIs
<1> HIDE DEF order
<1>3. order \in [1 .. m -> S]
  BY <1>1, <1>2 DEF Enumerates
<1>4. sorted \in [1 .. m -> Int] /\ \A i \in 1 .. m : sorted[i] = data[order[i]] /\ sorted[i] \in Int
  BY <1>3
<1>5. \A i, j \in 1 .. m : i < j => sorted[i] <= sorted[j]
  BY <1>2, <1>3 DEF Sorted
<1>6. \A i \in 1 .. m : sorted[i] \in ValuesOf(data)
  BY <1>3, <1>4 DEF ValuesOf
<1> HIDE DEF sorted
<1>7. \A i, j \in 1 .. m : i <= j => sorted[i] <= sorted[j]
  BY <1>4, <1>5
<1> QED
  BY <1>1, <1>4, <1>6, <1>7 DEF order, sorted, S

(* A percentile lies between two neighbours of the sorted values.            *)
LEMMA HundredthsAre ==
    ASSUME NEW x \in Nat
    PROVE  /\ x \div 100 \in Nat /\ x % 100 \in 0 .. 99 /\ x = 100 * (x \div 100) + (x % 100)
OBVIOUS

PlaceIs(v, m, p, r, low, frac, high) ==
    /\ low \in 0 .. m - 1 /\ high \in 0 .. m - 1 /\ frac \in 0 .. 99
    /\ p * (m - 1) = 100 * low + frac
    /\ low <= high /\ high <= low + 1 /\ (low < m - 1 => high = low + 1)
    /\ r = Between(v[low + 1], v[high + 1], frac)

SortedValues(data) ==
    [i \in DOMAIN SortedBy(DOMAIN data, data) |-> data[SortedBy(DOMAIN data, data)[i]]]

LEMMA PlaceExists ==
    ASSUME NEW m \in Nat \ {0}, NEW data \in [1 .. m -> Int], NEW p \in 0 .. 100
    PROVE  \E low, frac, high : PlaceIs(SortedValues(data), m, p, percentile(data, p), low, frac, high)
<1> DEFINE v == SortedValues(data)
           x == p * (m - 1)
           low == x \div 100
           frac == x % 100
           high == Min({low + 1, m - 1})
<1>1. Len(data) = m
  OBVIOUS
<1>2. percentile(data, p) = Between(v[low + 1], v[high + 1], frac)
  BY <1>1 DEF percentile, SortedValues, Between
<1> HIDE DEF v
<1>3. x \in Nat /\ x <= 100 * (m - 1)
  <2> DEFINE k == m - 1
             w == 100 - p
  <2>1. k \in Nat /\ w \in Nat /\ p \in Nat
    OBVIOUS
  <2>2. 100 * k = p * k + w * k
    OBVIOUS
  <2> HIDE DEF k, w
  <2>3. p * k \in Nat /\ w * k \in Nat
    BY <2>1
  <2>4. p * k <= 100 * k
    BY <2>2, <2>3
  <2> QED
    BY <2>3, <2>4 DEF k
<1> HIDE DEF x
<1>4. low \in Nat /\ frac \in 0 .. 99 /\ x = 100 * low + frac
  BY <1>3, HundredthsAre
<1> HIDE DEF low, frac
<1>5. low \in 0 .. m - 1
  BY <1>3, <1>4
<1>6. high \in {low + 1, m - 1} /\ high <= low + 1 /\ high <= m - 1
  <2>1. low + 1 \in Int /\ m - 1 \in Int
    BY <1>4
  <2> QED
    BY <2>1, MinOfTwo
<1> HIDE DEF high
<1>7. high \in 0 .. m - 1 /\ low <= high /\ (low < m - 1 => high = low + 1)
  BY <1>5, <1>6
<1>8. PlaceIs(v, m, p, percentile(data, p), low, frac, high)
  BY <1>2, <1>4, <1>5, <1>6, <1>7 DEF PlaceIs, x
<1> QED
  BY <1>8 DEF v

LEMMA PercentileIs ==
    ASSUME NEW m \in Nat \ {0}, NEW data \in [1 .. m -> Int], NEW p \in 0 .. 100
    PROVE  /\ percentile(data, p) \in Int
           /\ \E y \in ValuesOf(data) : percentile(data, p) <= 100 * y
           /\ \A q \in 0 .. 100 : p <= q => percentile(data, p) <= percentile(data, q)
<1> DEFINE v == SortedValues(data)
<1>1. /\ v \in [1 .. m -> Int]
      /\ \A i, j \in 1 .. m : i <= j => v[i] <= v[j]
      /\ \A i \in 1 .. m : v[i] \in ValuesOf(data)
  BY ValuesSorted DEF SortedValues
<1> HIDE DEF v
<1>2. PICK low, frac, high : PlaceIs(v, m, p, percentile(data, p), low, frac, high)
  BY PlaceExists DEF v
<1> DEFINE r == percentile(data, p)
           a == v[low + 1]
           b == v[high + 1]
<1>3. /\ low \in 0 .. m - 1 /\ high \in 0 .. m - 1 /\ frac \in 0 .. 99
      /\ p * (m - 1) = 100 * low + frac
      /\ low <= high /\ high <= low + 1 /\ (low < m - 1 => high = low + 1)
      /\ r = Between(a, b, frac)
  BY <1>2 DEF PlaceIs
<1> HIDE DEF r
<1>4. low + 1 \in 1 .. m /\ high + 1 \in 1 .. m /\ a \in Int /\ b \in Int /\ a <= b
  BY <1>1, <1>3
<1>5. r \in Int /\ 100 * a <= r /\ r <= 100 * b
  BY <1>3, <1>4, BetweenIs
<1>6. ASSUME NEW q \in 0 .. 100, p <= q PROVE r <= percentile(data, q)
  <2>1. PICK low2, frac2, high2 : PlaceIs(v, m, q, percentile(data, q), low2, frac2, high2)
    BY PlaceExists DEF v
  <2> DEFINE r2 == percentile(data, q)
             a2 == v[low2 + 1]
             b2 == v[high2 + 1]
  <2>2. /\ low2 \in 0 .. m - 1 /\ high2 \in 0 .. m - 1 /\ frac2 \in 0 .. 99
        /\ q * (m - 1) = 100 * low2 + frac2
        /\ low2 <= high2 /\ high2 <= low2 + 1 /\ (low2 < m - 1 => high2 = low2 + 1)
        /\ r2 = Between(a2, b2, frac2)
    BY <2>1 DEF PlaceIs
  <2> HIDE DEF r2
  <2>3. low2 + 1 \in 1 .. m /\ high2 + 1 \in 1 .. m /\ a2 \in Int /\ b2 \in Int /\ a2 <= b2
    BY <1>1, <2>2
  <2>4. r2 \in Int /\ 100 * a2 <= r2 /\ r2 <= 100 * b2
    BY <2>2, <2>3, BetweenIs
  <2>5. 100 * low + frac <= 100 * low2 + frac2
    <3> DEFINE k == m - 1
               w == q - p
    <3>1. k \in Nat /\ w \in Nat /\ p \in Nat
      BY <1>6
    <3>2. q * k = p * k + w * k
      OBVIOUS
    <3> HIDE DEF k, w
    <3>3. p * k \in Nat /\ w * k \in Nat
      BY <3>1
    <3>4. p * k <= q * k
      BY <3>2, <3>3
    <3> QED
      BY <1>3, <2>2, <3>4 DEF k
  <2>6. CASE low = low2
    <3>1. high = high2 /\ frac <= frac2
      BY <1>3, <2>2, <2>5, <2>6
    <3>2. Between(a, b, frac) <= Between(a, b, frac2)
      BY <1>3, <1>4, <2>2, <3>1, BetweenIs
    <3> QED
      BY <1>3, <2>2, <2>6, <3>1, <3>2 DEF r2
  <2>7. CASE low # low2
    <3>1. low < low2
      <4>1. low \in Int /\ low2 \in Int /\ frac \in 0 .. 99 /\ frac2 \in 0 .. 99
        BY <1>3, <2>2
      <4> QED
        BY <2>5, <2>7, <4>1
    <3>2. high <= low2
      BY <1>3, <2>2, <3>1
    <3>3. b <= a2
      BY <1>1, <1>3, <1>4, <2>2, <2>3, <3>2
    <3> HIDE DEF a, b, a2, b2
    <3>4. r <= r2
      BY <1>4, <1>5, <2>3, <2>4, <3>3
    <3> QED
      BY <3>4 DEF r2
  <2> QED
    BY <2>6, <2>7
<1>7. b \in ValuesOf(data)
  BY <1>1, <1>4
<1> QED
  BY <1>5, <1>6, <1>7 DEF r

(* The simulation draws a path through the executed trades, and each of its  *)
(* runs replays one that it drew.                                            *)
DrawnPath(path, n, method) ==
    /\ path \in Seq(1 .. n) /\ Len(path) <= n
    /\ method = "RANDOM_SHUFFLE" => Once(path, Len(path))

ReplayRun(r, pnls, n, method) ==
    \E p \in [1 .. n -> 1 .. n] :
        /\ method = "RANDOM_SHUFFLE" => Once(p, n)
        /\ r = simulate_one(Replayed(pnls, p, n), StartingCapital)

StatInv ==
    /\ trades \in Seq(BacktestTrade) /\ InDayOrder(trades)
    /\ mc \in [method : {None, "RANDOM_SHUFFLE", "BOOTSTRAP"}, path : Seq(Nat),
               runs : Seq(SimState)]
    /\ mc.method = None => mc = NoSimulation
    /\ DrawnPath(mc.path, Len(Executed(trades)), mc.method)
    /\ \A i \in DOMAIN mc.runs :
           ReplayRun(mc.runs[i], PnlsOf(Executed(trades)), Len(Executed(trades)), mc.method)

LEMMA PoolIs ==
    ASSUME NEW all \in Seq(BacktestTrade)
    PROVE  /\ Len(Executed(all)) \in Nat
           /\ PnlsOf(Executed(all)) \in [1 .. Len(Executed(all)) -> Int]
<1>1. Executed(all) \in Seq(BacktestTrade)
  BY ExecutedInOrder
<1>2. PICK n \in Nat : Executed(all) \in [1 .. n -> BacktestTrade] /\ Len(Executed(all)) = n
  BY <1>1, ListOfTrades
<1> QED
  BY <1>2, PnlsAre

(* What the summary says of runs that replay the backtest.                   *)
LEMMA RunsAreSound == StatInv => SimulationIsSound
<1> SUFFICES ASSUME StatInv, Len(mc.runs) = SimulationCount PROVE SimulationIsSound
  BY DEF SimulationIsSound
<1> DEFINE pnls == PnlsOf(Executed(trades))
           n == Len(Executed(trades))
           replays == mc.runs
           m == SimulationCount
           c == StartingCapital
           dds == [i \in DOMAIN replays |-> replays[i].dd]
           summary == aggregate_runs(replays)
           dp == summary.drawdown_percentiles
           P == {10, 25, 50, 75, 90, 95, 99}
<1>1. n \in Nat /\ pnls \in [1 .. n -> Int]
  BY PoolIs DEF StatInv
<1>2. replays \in Seq(SimState) /\ \A i \in DOMAIN replays : ReplayRun(replays[i], pnls, n, mc.method)
  BY DEF StatInv
<1>3. m \in Nat \ {0} /\ c \in Nat \ {0} /\ c \in Int /\ RuinThresholds \subseteq 1 .. 100 /\ Len(replays) = m
  BY StatisticsAssumption
<1>4. /\ summary.p95 = percentile(dds, 95) /\ summary.max_drawdown = Max(ValuesOf(dds))
      /\ dp = [p \in P |-> percentile(dds, p)]
  BY DEF aggregate_runs
<1> HIDE DEF pnls, n, replays, m, c, summary, dp
<1>5. DOMAIN replays = 1 .. m /\ \A i \in 1 .. m : replays[i] \in SimState
  BY <1>2, <1>3
<1>6. dds \in [1 .. m -> Int] /\ \A i \in 1 .. m : dds[i] = replays[i].dd
  BY <1>5 DEF SimState
<1> HIDE DEF dds
<1>7. ASSUME NEW p \in 0 .. 100
      PROVE  /\ percentile(dds, p) \in Int
             /\ \E y \in ValuesOf(dds) : percentile(dds, p) <= 100 * y
             /\ \A q \in 0 .. 100 : p <= q => percentile(dds, p) <= percentile(dds, q)
  BY <1>3, <1>6, PercentileIs
<1>8. \A p \in P : p \in 0 .. 100
  OBVIOUS
<1>9. \A p, q \in P : p <= q => dp[p] <= dp[q]
  <2> SUFFICES ASSUME NEW p \in P, NEW q \in P, p <= q PROVE dp[p] <= dp[q]
    OBVIOUS
  <2>1. p \in 0 .. 100 /\ q \in 0 .. 100
    BY <1>8
  <2>2. percentile(dds, p) <= percentile(dds, q)
    BY <1>7, <2>1
  <2>3. dp[p] = percentile(dds, p) /\ dp[q] = percentile(dds, q)
    BY <1>4
  <2> QED
    BY <2>2, <2>3
<1>10. dp[99] <= 100 * summary.max_drawdown
  <2>1. 99 \in P /\ 99 \in 0 .. 100
    OBVIOUS
  <2>2. PICK y \in ValuesOf(dds) : percentile(dds, 99) <= 100 * y
    BY <1>7, <2>1
  <2>3. IsFiniteSet(ValuesOf(dds)) /\ ValuesOf(dds) \subseteq Int
    <3> DEFINE S == DOMAIN dds
    <3>1. IsFiniteSet(S)
      BY <1>3, <1>6, FS_Interval
    <3> HIDE DEF S
    <3>2. IsFiniteSet({dds[i] : i \in S})
      BY <3>1, FiniteImage
    <3> QED
      BY <1>6, <3>2 DEF S, ValuesOf
  <2>4. Max(ValuesOf(dds)) \in ValuesOf(dds) /\ Max(ValuesOf(dds)) >= y
    BY <2>2, <2>3, MaxExists
  <2>5. y \in Int /\ Max(ValuesOf(dds)) \in Int /\ percentile(dds, 99) \in Int
    BY <1>7, <2>1, <2>2, <2>3, <2>4
  <2>6. dp[99] = percentile(dds, 99)
    BY <1>4, <2>1
  <2> DEFINE t == Max(ValuesOf(dds))
             z == percentile(dds, 99)
  <2>7. t \in Int /\ t >= y /\ z \in Int /\ z <= 100 * y /\ y \in Int
    BY <2>2, <2>4, <2>5
  <2>8. dp[99] = z /\ summary.max_drawdown = t
    BY <1>4, <2>6
  <2> HIDE DEF t, z
  <2> QED
    BY <2>7, <2>8
<1>11. ASSUME NEW i \in DOMAIN replays
       PROVE  /\ mc.method = "RANDOM_SHUFFLE" => replays[i].equity = c + Total(pnls)
              /\ c - replays[i].min_equity <= replays[i].dd
              /\ replays[i].min_equity \in Int /\ replays[i].dd \in Int
  <2>1. PICK p \in [1 .. n -> 1 .. n] :
          /\ mc.method = "RANDOM_SHUFFLE" => Once(p, n)
          /\ replays[i] = simulate_one(Replayed(pnls, p, n), c)
    BY <1>2 DEF ReplayRun, c
  <2>2. /\ replays[i] \in SimState /\ c - replays[i].min_equity <= replays[i].dd
        /\ Once(p, n) => replays[i].equity = c + Total(pnls)
    BY <1>1, <1>3, <2>1, ReplayIs, ZenonT(30)
  <2> QED
    BY <2>1, <2>2 DEF SimState
<1>12. ASSUME NEW i \in DOMAIN replays, NEW th \in RuinThresholds
       PROVE  /\ replays[i].min_equity * 100 <= c * th => replays[i].dd * 100 >= c * (100 - th)
              /\ /\ th < 50 /\ replays[i].dd * 100 <= summary.p95
                 /\ current_capital_sufficient(summary, th)
                 /\ summary.p95 > 0
                 => replays[i].min_equity * 100 > c * th
  <2> DEFINE low == replays[i].min_equity
             dd == replays[i].dd
             p95 == summary.p95
  <2>1. th \in 1 .. 100
    BY <1>3
  <2>2. low \in Int /\ dd \in Int /\ c - low <= dd
    BY <1>11
  <2>3. p95 \in Int
    <3>1. 95 \in 0 .. 100
      OBVIOUS
    <3> QED
      BY <1>4, <1>7, <3>1
  <2>4. current_capital_sufficient(summary, th) <=> c * th >= p95
    BY DEF current_capital_sufficient, c
  <2> HIDE DEF low, dd, p95
  <2>5. /\ low * 100 <= c * th => dd * 100 >= c * (100 - th)
        /\ th < 50 /\ dd * 100 <= p95 /\ c * th >= p95 => low * 100 > c * th
    BY <1>3, <2>1, <2>2, <2>3, RuinIs
  <2> QED
    BY <2>4, <2>5 DEF low, dd, p95
<1>13. DOMAIN dp = P
  BY <1>4
<1> HIDE DEF P
<1>14. /\ \A i \in DOMAIN replays :
             /\ mc.method = "RANDOM_SHUFFLE" => replays[i].equity = c + Total(pnls)
             /\ c - replays[i].min_equity <= replays[i].dd
             /\ \A th \in RuinThresholds :
                   /\ replays[i].min_equity * 100 <= c * th => replays[i].dd * 100 >= c * (100 - th)
                   /\ /\ th < 50 /\ replays[i].dd * 100 <= summary.p95
                      /\ current_capital_sufficient(summary, th)
                      /\ summary.p95 > 0
                      => replays[i].min_equity * 100 > c * th
       /\ \A p, q \in DOMAIN dp : p <= q => dp[p] <= dp[q]
       /\ dp[99] <= 100 * summary.max_drawdown
  BY <1>9, <1>10, <1>11, <1>12, <1>13
<1> QED
  BY <1>14 DEF SimulationIsSound, pnls, replays, c, summary, dp

LEMMA StatisticsFollow == StatInv => StatisticsAgree
<1> SUFFICES ASSUME StatInv PROVE StatisticsAgree
  OBVIOUS
<1>1. RiskNumbersAgree /\ BreakdownsAddUp
  BY RiskAgrees, BreakdownsAgree DEF StatInv
<1>2. SimulationIsSound
  BY RunsAreSound
<1> QED
  BY <1>1, <1>2 DEF StatisticsAgree

LEMMA StatisticsStart == StatInit => StatInv
<1> SUFFICES ASSUME StatInit PROVE StatInv
  OBVIOUS
<1>1. trades = << >> /\ mc = NoSimulation /\ mc.path = << >> /\ mc.runs = << >> /\ mc.method = None
  BY DEF StatInit, NoSimulation
<1>2. trades \in Seq(BacktestTrade) /\ InDayOrder(trades)
  BY <1>1 DEF InDayOrder
<1>3. mc \in [method : {None, "RANDOM_SHUFFLE", "BOOTSTRAP"}, path : Seq(Nat), runs : Seq(SimState)]
  BY <1>1 DEF NoSimulation
<1>4. DrawnPath(mc.path, Len(Executed(trades)), mc.method)
  <2>1. Len(Executed(trades)) \in Nat
    BY <1>2, PoolIs
  <2> HIDE DEF InDayOrder
  <2> QED
    BY <1>1, <2>1 DEF DrawnPath, Once
<1>5. \A i \in DOMAIN mc.runs :
          ReplayRun(mc.runs[i], PnlsOf(Executed(trades)), Len(Executed(trades)), mc.method)
  BY <1>1
<1> QED
  BY <1>1, <1>2, <1>3, <1>4, <1>5 DEF StatInv

(* A backtest adds its trades in day order.                                  *)
LEMMA RecordTradeKeeps == StatInv /\ RecordTrade => StatInv'
<1> SUFFICES ASSUME StatInv, RecordTrade PROVE StatInv'
  OBVIOUS
<1>1. mc' = mc /\ mc = NoSimulation
  BY DEF StatInv, RecordTrade
<1>2. PICK k \in TradeKinds, d \in FromDay .. LastTradeDay :
        /\ IF trades = << >> THEN TRUE ELSE trades[Len(trades)].day <= d
        /\ trades' = Append(trades,
               [sym |-> k.sym, side |-> k.side, day |-> d, entry |-> k.entry,
                exit |-> k.exit, reason |-> k.reason, pnl |-> k.pnl,
                orb |-> k.orb, prob |-> k.prob])
  BY DEF RecordTrade
<1> DEFINE t == [sym |-> k.sym, side |-> k.side, day |-> d, entry |-> k.entry,
                 exit |-> k.exit, reason |-> k.reason, pnl |-> k.pnl,
                 orb |-> k.orb, prob |-> k.prob]
<1>3. t \in BacktestTrade /\ t.day = d /\ d \in Int
  BY TradeKindsAssumption, StatisticsAssumption DEF BacktestTrade
<1>4. trades' = Append(trades, t)
  BY <1>2
<1> HIDE DEF t
<1>5. trades \in Seq(BacktestTrade) /\ InDayOrder(trades)
  BY DEF StatInv
<1>6. trades' \in Seq(BacktestTrade)
  BY <1>3, <1>4, <1>5
<1>7. InDayOrder(trades')
  <2> DEFINE n == Len(trades)
  <2>1. n \in Nat /\ DOMAIN trades = 1 .. n /\ \A i \in 1 .. n : trades[i] \in BacktestTrade
    BY <1>5
  <2>2. /\ DOMAIN trades' = 1 .. n + 1 /\ trades'[n + 1] = t
        /\ \A i \in 1 .. n : trades'[i] = trades[i]
    BY <1>3, <1>4, <1>5
  <2>3. n # 0 => trades[n].day <= d
    <3>1. trades = << >> => n = 0
      OBVIOUS
    <3> QED
      BY <1>2, <3>1
  <2> HIDE DEF n
  <2>4. \A i \in 1 .. n : trades[i].day \in Int
    BY <2>1, RecordIs
  <2>5. \A i \in 1 .. n : trades[i].day <= d
    <3> SUFFICES ASSUME NEW i \in 1 .. n PROVE trades[i].day <= d
      OBVIOUS
    <3>1. n \in 1 .. n /\ n # 0 /\ (i = n \/ i < n)
      BY <2>1
    <3>2. trades[i].day <= trades[n].day
      BY <1>5, <2>1, <2>4, <3>1 DEF InDayOrder
    <3> QED
      BY <1>3, <2>3, <2>4, <3>1, <3>2
  <2>6. ASSUME NEW i \in 1 .. n + 1, NEW j \in 1 .. n + 1, i < j
        PROVE  trades'[i].day <= trades'[j].day
    <3>1. i \in 1 .. n /\ (j = n + 1 \/ j \in 1 .. n)
      BY <2>1, <2>6
    <3>2. CASE j = n + 1
      BY <1>3, <2>2, <2>5, <3>1, <3>2
    <3>3. CASE j \in 1 .. n
      <4>1. trades[i].day <= trades[j].day
        BY <1>5, <2>1, <2>6, <3>1, <3>3 DEF InDayOrder
      <4> QED
        BY <2>2, <3>1, <3>3, <4>1
    <3> QED
      BY <3>1, <3>2, <3>3
  <2> QED
    BY <2>2, <2>6 DEF InDayOrder
<1>8. mc'.path = << >> /\ mc'.runs = << >> /\ mc'.method = None
  BY <1>1 DEF NoSimulation
<1>9. DrawnPath(mc'.path, Len(Executed(trades')), mc'.method)
  <2>1. Len(Executed(trades')) \in Nat
    BY <1>6, PoolIs
  <2> QED
    BY <1>8, <2>1 DEF DrawnPath, Once
<1>10. mc' \in [method : {None, "RANDOM_SHUFFLE", "BOOTSTRAP"}, path : Seq(Nat), runs : Seq(SimState)]
  BY <1>1 DEF StatInv
<1> QED
  BY <1>1, <1>6, <1>7, <1>8, <1>9, <1>10 DEF StatInv

LEMMA StartMonteCarloKeeps == StatInv /\ StartMonteCarlo => StatInv'
<1> SUFFICES ASSUME StatInv, StartMonteCarlo PROVE StatInv'
  OBVIOUS
<1>1. PICK method \in {"RANDOM_SHUFFLE", "BOOTSTRAP"} : mc' = [mc EXCEPT !.method = method]
  BY DEF StartMonteCarlo
<1>2. trades' = trades /\ mc = NoSimulation
  BY DEF StatInv, StartMonteCarlo
<1>3. mc' = [method |-> method, path |-> << >>, runs |-> << >>]
  BY <1>1, <1>2 DEF NoSimulation
<1>4. mc'.method = None => mc' = NoSimulation
  BY <1>3 DEF NoSimulation
<1>5. mc' \in [method : {None, "RANDOM_SHUFFLE", "BOOTSTRAP"}, path : Seq(Nat), runs : Seq(SimState)]
  BY <1>3
<1>6. DrawnPath(mc'.path, Len(Executed(trades')), mc'.method)
  <2>1. Len(Executed(trades')) \in Nat
    BY <1>2, PoolIs DEF StatInv
  <2> QED
    BY <1>3, <2>1 DEF DrawnPath, Once
<1>7. trades' \in Seq(BacktestTrade) /\ InDayOrder(trades')
  BY <1>2 DEF StatInv
<1> QED
  BY <1>3, <1>4, <1>5, <1>6, <1>7 DEF StatInv

(* A shuffle draws no trade twice.                                           *)
LEMMA DrawKeeps == StatInv /\ Draw => StatInv'
<1> SUFFICES ASSUME StatInv, Draw PROVE StatInv'
  OBVIOUS
<1> DEFINE pnls == PnlsOf(Executed(trades))
           n == Len(Executed(trades))
           path == mc.path
<1>1. n \in Nat /\ pnls \in [1 .. n -> Int] /\ DOMAIN pnls = 1 .. n /\ Len(pnls) = n
  <2>1. n \in Nat /\ pnls \in [1 .. n -> Int]
    BY PoolIs DEF StatInv
  <2> HIDE DEF n, pnls
  <2> QED
    BY <2>1
<1>2. /\ mc.method # None /\ Len(path) < Len(pnls) /\ trades' = trades
      /\ \E i \in DOMAIN pnls :
            /\ mc.method = "RANDOM_SHUFFLE" => i \notin ValuesOf(path)
            /\ mc' = [mc EXCEPT !.path = Append(@, i)]
  BY DEF Draw
<1>3. PICK i \in DOMAIN pnls :
        /\ mc.method = "RANDOM_SHUFFLE" => i \notin ValuesOf(path)
        /\ mc' = [mc EXCEPT !.path = Append(@, i)]
  BY <1>2
<1>4. /\ mc \in [method : {None, "RANDOM_SHUFFLE", "BOOTSTRAP"}, path : Seq(Nat), runs : Seq(SimState)]
      /\ DrawnPath(path, n, mc.method)
  BY DEF StatInv
<1> HIDE DEF n, pnls
<1>5. mc' = [mc EXCEPT !.path = Append(path, i)] /\ i \in 1 .. n /\ i \in Nat
  BY <1>1, <1>3
<1>6. mc'.method = mc.method /\ mc'.runs = mc.runs /\ mc'.path = Append(path, i)
  BY <1>4, <1>5
<1>7. mc' \in [method : {None, "RANDOM_SHUFFLE", "BOOTSTRAP"}, path : Seq(Nat), runs : Seq(SimState)]
  <2>1. path \in Seq(Nat) /\ mc.runs \in Seq(SimState)
    BY <1>4
  <2>2. mc' = [method |-> mc.method, path |-> Append(path, i), runs |-> mc.runs]
    BY <1>4, <1>5
  <2> HIDE DEF path
  <2>3. Append(path, i) \in Seq(Nat)
    BY <1>5, <2>1
  <2> QED
    BY <1>4, <2>1, <2>2, <2>3
<1> HIDE DEF path
<1>8. DrawnPath(mc'.path, n, mc'.method)
  <2> DEFINE m == Len(path)
             q == Append(path, i)
  <2>1. path \in Seq(1 .. n) /\ m <= n /\ (mc.method = "RANDOM_SHUFFLE" => Once(path, m))
    BY <1>4 DEF DrawnPath
  <2>2. m \in Nat /\ m < n
    BY <1>1, <1>2, <2>1
  <2>3. q \in Seq(1 .. n) /\ Len(q) = m + 1 /\ q[m + 1] = i /\ (\A j \in 1 .. m : q[j] = path[j])
    BY <1>5, <2>1
  <2>4. ValuesOf(path) = {path[j] : j \in 1 .. m}
    BY <2>1 DEF ValuesOf
  <2> HIDE DEF m, q
  <2>5. ASSUME mc.method = "RANDOM_SHUFFLE" PROVE Once(q, m + 1)
    <3>1. \A j \in 1 .. m : path[j] # i
      BY <1>3, <2>4, <2>5
    <3>2. \A j, k \in 1 .. m : path[j] = path[k] => j = k
      BY <2>1, <2>5 DEF Once
    <3>3. \A j \in 1 .. m + 1 : j = m + 1 \/ j \in 1 .. m
      BY <2>2
    <3>4. \A j, k \in 1 .. m + 1 : q[j] = q[k] => j = k
      BY <2>3, <3>1, <3>2, <3>3
    <3> QED
      BY <3>4 DEF Once
  <2>6. m + 1 <= n
    BY <1>1, <2>2
  <2>7. mc'.path = q
    BY <1>6 DEF q
  <2> QED
    BY <1>6, <2>3, <2>5, <2>6, <2>7 DEF DrawnPath
<1>9. trades \in Seq(BacktestTrade) /\ InDayOrder(trades)
  BY DEF StatInv
<1>10. \A j \in DOMAIN mc.runs : ReplayRun(mc.runs[j], pnls, n, mc.method)
  BY DEF StatInv, pnls, n
<1> QED
  BY <1>2, <1>6, <1>7, <1>8, <1>9, <1>10 DEF StatInv, pnls, n

(* A full path is replayed.                                                  *)
LEMMA SimulateOneKeeps == StatInv /\ SimulateOne => StatInv'
<1> SUFFICES ASSUME StatInv, SimulateOne PROVE StatInv'
  OBVIOUS
<1> DEFINE pnls == PnlsOf(Executed(trades))
           n == Len(Executed(trades))
           path == mc.path
           r == simulate_one(Path, StartingCapital)
<1>1. n \in Nat /\ pnls \in [1 .. n -> Int]
  BY PoolIs DEF StatInv
<1>2. /\ mc.method # None /\ Len(path) = n /\ trades' = trades
      /\ mc' = [mc EXCEPT !.runs = Append(@, r), !.path = << >>]
  BY DEF SimulateOne
<1>3. /\ mc \in [method : {None, "RANDOM_SHUFFLE", "BOOTSTRAP"}, path : Seq(Nat), runs : Seq(SimState)]
      /\ DrawnPath(path, n, mc.method)
      /\ trades \in Seq(BacktestTrade) /\ InDayOrder(trades)
      /\ \A j \in DOMAIN mc.runs : ReplayRun(mc.runs[j], pnls, n, mc.method)
  BY DEF StatInv
<1>4. Path = [j \in DOMAIN path |-> pnls[path[j]]]
  BY DEF Path
<1> HIDE DEF n, pnls, path, r
<1>5. path \in [1 .. n -> 1 .. n] /\ (mc.method = "RANDOM_SHUFFLE" => Once(path, n))
  <2>1. path \in Seq(1 .. n) /\ (mc.method = "RANDOM_SHUFFLE" => Once(path, Len(path)))
    BY <1>3 DEF DrawnPath
  <2>2. path \in [1 .. Len(path) -> 1 .. n]
    <3> DEFINE X == 1 .. n
    <3>1. path \in Seq(X)
      BY <2>1
    <3> HIDE DEF X
    <3>2. path \in [1 .. Len(path) -> X]
      BY <3>1
    <3> QED
      BY <3>2 DEF X
  <2> QED
    BY <1>2, <2>1, <2>2
<1>6. r = simulate_one(Replayed(pnls, path, n), StartingCapital)
  <2>1. Path = Replayed(pnls, path, n)
    BY <1>4, <1>5 DEF Replayed
  <2> QED
    BY <2>1 DEF r
<1>7. ReplayRun(r, pnls, n, mc.method) /\ r \in SimState
  <2>1. ReplayRun(r, pnls, n, mc.method)
    BY <1>5, <1>6 DEF ReplayRun
  <2>2. StartingCapital \in Int
    BY StatisticsAssumption
  <2> DEFINE q == path
  <2>3. q \in [1 .. n -> 1 .. n] /\ r = simulate_one(Replayed(pnls, q, n), StartingCapital)
    BY <1>5, <1>6
  <2> HIDE DEF q
  <2>4. r \in SimState
    BY <1>1, <2>2, <2>3, ReplayIs
  <2> QED
    BY <2>1, <2>4
<1> DEFINE runs2 == Append(mc.runs, r)
<1>8. mc.runs \in Seq(SimState) /\ runs2 \in Seq(SimState)
  BY <1>3, <1>7
<1>9. mc' = [method |-> mc.method, path |-> << >>, runs |-> runs2]
  BY <1>2, <1>3
<1>10. mc'.method = mc.method /\ mc'.path = << >> /\ mc'.runs = runs2
  BY <1>9
<1>11. \A j \in DOMAIN runs2 : ReplayRun(runs2[j], pnls, n, mc.method)
  <2> DEFINE m == Len(mc.runs)
  <2>1. /\ m \in Nat /\ DOMAIN mc.runs = 1 .. m /\ DOMAIN runs2 = 1 .. m + 1
        /\ runs2[m + 1] = r /\ \A j \in 1 .. m : runs2[j] = mc.runs[j]
    BY <1>7, <1>8
  <2> HIDE DEF m, runs2
  <2>2. \A j \in 1 .. m + 1 : j = m + 1 \/ j \in 1 .. m
    BY <2>1
  <2> QED
    BY <1>3, <1>7, <2>1, <2>2
<1> HIDE DEF runs2
<1>12. mc' \in [method : {None, "RANDOM_SHUFFLE", "BOOTSTRAP"}, path : Seq(Nat), runs : Seq(SimState)]
  BY <1>3, <1>8, <1>9
<1>13. DrawnPath(mc'.path, n, mc'.method)
  BY <1>1, <1>10 DEF DrawnPath, Once
<1> QED
  BY <1>2, <1>3, <1>10, <1>11, <1>12, <1>13 DEF StatInv, pnls, n

(* A backtest's trades stay in day order, every path the simulator draws is  *)
(* one of positions of executed trades (each at most once in a shuffle), and *)
(* every recorded run is what simulate_one reports of such a path.           *)
THEOREM StatisticsInvariant == StatSpec => []StatInv
<1>1. StatInit => StatInv
  BY StatisticsStart
<1>2. StatInv /\ [StatNext]_statVars => StatInv'
  <2> SUFFICES ASSUME StatInv, [StatNext]_statVars PROVE StatInv'
    OBVIOUS
  <2>1. CASE RecordTrade
    BY <2>1, RecordTradeKeeps
  <2>2. CASE StartMonteCarlo
    BY <2>2, StartMonteCarloKeeps
  <2>3. CASE Draw
    BY <2>3, DrawKeeps
  <2>4. CASE SimulateOne
    BY <2>4, SimulateOneKeeps
  <2>5. CASE UNCHANGED statVars
    <3>1. trades' = trades /\ mc' = mc
      BY <2>5 DEF statVars
    <3> QED
      BY <3>1 DEF StatInv
  <2> QED
    BY <2>1, <2>2, <2>3, <2>4, <2>5 DEF StatNext
<1> QED
  BY <1>1, <1>2, PTL DEF StatSpec

(* Whatever trades a backtest records and whatever paths are drawn: the      *)
(* drawdowns, streaks and Sharpe ratios of the metrics engine, the analytics *)
(* and the simulator agree, every breakdown adds up to the run's totals, and *)
(* the Monte Carlo summary keeps what it promises of its runs.               *)
THEOREM StatisticsAlwaysAgree == StatSpec => []StatisticsAgree
<1>1. StatSpec => []StatInv
  BY StatisticsInvariant
<1>2. StatInv => StatisticsAgree
  BY StatisticsFollow
<1> QED
  BY <1>1, <1>2, PTL
=============================================================================
