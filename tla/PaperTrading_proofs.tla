------------------------- MODULE PaperTrading_proofs -------------------------
(***************************************************************************)
(* What the portfolio layer and paper trading promise for any number of    *)
(* deliveries, candle callbacks, operators, failures and restarts: a halt  *)
(* holds, the capital handed out stays within the exposure limit, the      *)
(* daily trade cap and the loss cooldown are kept, and the account agrees  *)
(* with the positions and the ledger.                                      *)
(***************************************************************************)
EXTENDS PaperTrading, SumLemmas, SequenceTheorems, TLAPS

(* Where a delivery, a candle callback and an operator can be.               *)
PortfolioPlaces == {"state", "create", "allocate", "update", "dispatch", "flag"}
OpenPlaces      == {"approved", "hydrate", "open", "gate", "debit"}
ClosePlaces     == {"close", "ledger", "balance", "credit"}
ChangePlaces    == {"pause", "pause_w", "resume", "resume_w", "reset", "reset_w",
                    "refresh", "refresh_w"}

DeliveryPlaces ==
    {"idle", "state", "create", "allocate", "update", "dispatch", "done"} \cup OpenPlaces
CandlePlaces ==
    {"idle", "candle", "hydrate", "mark", "persist"} \cup ClosePlaces \cup ChangePlaces
OperatorPlaces ==
    {"idle", "state", "create", "flag", "wipe", "fresh"} \cup ClosePlaces \cup ChangePlaces

PlacesInv ==
    /\ DOMAIN pc = Agents /\ DOMAIN call = Operators
    /\ \A d \in Deliveries : pc[d] \in DeliveryPlaces
    /\ \A c \in Candles : pc[c] \in CandlePlaces
    /\ \A o \in Operators : pc[o] \in OperatorPlaces

(* The documents and copies of the portfolio layer.                          *)
PortfolioType ==
    /\ risk \in {None} \cup RiskState
    /\ copy \in [Tasks -> {None} \cup RiskState]
    /\ cap \in [Deliveries -> Nat] /\ sent \in [Deliveries -> Nat]
    /\ version \in Nat /\ base \in [Tasks -> Nat]
    /\ halt \in BOOLEAN /\ held \subseteq Deliveries
    /\ sig \in [Deliveries -> {None} \cup Signals]
    /\ \A d \in Deliveries : pc[d] \notin {"idle", "done"} => sig[d] \in Signals

(* The pipeline lock, and what a task has read of the risk state.            *)
CopyInv ==
    /\ \A d \in Deliveries : pc[d] \in {"state", "create", "allocate", "update"} => plock = d
    /\ \A t \in Tasks :
          /\ pc[t] \in {"create", "allocate", "update", "flag"} =>
                base[t] <= version /\ (base[t] = version => copy[t] = risk)
          /\ pc[t] = "create" => copy[t] = None
          /\ pc[t] \in {"allocate", "update", "flag"} => copy[t] \in RiskState

(* A delivery is given capital by the gate and dispatched after it.          *)
DispatchInv == \A d \in Deliveries :
    pc[d] \in {"idle", "state", "create", "allocate", "update", "dispatch"} => sent[d] = 0

PortfolioInv == PlacesInv /\ PortfolioType /\ CopyInv /\ DispatchInv

(* While a halt is in force the document of the day says so, nobody is       *)
(* about to lift it, and a delivery that read it never gets capital.         *)
HaltKept ==
    /\ halt => risk \in RiskState /\ risk.halted /\ \A o \in Operators : ~Resuming(o)
    /\ \A d \in held :
          /\ pc[d] \in {"allocate", "update", "done"} /\ sent[d] = 0
          /\ pc[d] \in {"allocate", "update"} => copy[d].halted
          /\ pc[d] = "update" => cap[d] = 0
HaltInv == "halt" \notin lost => HaltKept

LEMMA AgentsAreApart ==
    /\ Deliveries \cap Operators = {} /\ Deliveries \cap Candles = {}
    /\ Operators \cap Candles = {}
    /\ Deliveries \subseteq Tasks /\ Operators \subseteq Tasks /\ Tasks \subseteq Agents
    /\ Candles \subseteq Agents /\ Agents = Deliveries \cup Operators \cup Candles
BY PortfolioAssumption, PaperAssumption DEF Tasks, Agents

LEMMA FreshRiskIs == FreshRisk \in RiskState /\ FreshRisk.used = 0 /\ ~FreshRisk.halted
BY DEF FreshRisk, RiskState

LEMMA NoneIsNoDocument ==
    None \notin RiskState /\ None \notin Tasks /\ None \notin Candles /\ None \notin Status
    /\ None \notin Info /\ None \notin Agents
BY NoneAssumption, DocumentAssumption DEF Agents

LEMMA PortfolioInvInit == Init => PortfolioInv /\ HaltInv
<1> SUFFICES ASSUME Init PROVE PortfolioInv /\ HaltInv
  OBVIOUS
<1>1. \A a \in Agents : pc[a] = "idle"
  BY DEF Init
<1>2. PlacesInv
  BY <1>1, AgentsAreApart DEF Init, PortfolioInit, PlacesInv, DeliveryPlaces, CandlePlaces,
     OperatorPlaces
<1>3. PortfolioType
  BY <1>1, AgentsAreApart DEF Init, PortfolioInit, PortfolioType
<1>4. CopyInv /\ DispatchInv
  BY <1>1, AgentsAreApart DEF Init, PortfolioInit, CopyInv, DispatchInv
<1>5. HaltInv
  BY DEF Init, PortfolioInit, HaltInv, HaltKept
<1> QED
  BY <1>2, <1>3, <1>4, <1>5 DEF PortfolioInv

-----------------------------------------------------------------------------
(* Paper trading leaves the portfolio layer alone                           *)

PaperFrame ==
    /\ UNCHANGED <<risk, plock, sig, copy, cap, base, version, sent, halt, held>>
    /\ lost \subseteq lost'
    /\ DOMAIN pc' = Agents /\ DOMAIN call' = Operators
    /\ \A d \in Deliveries :
          pc'[d] = pc[d] \/ (pc[d] \in OpenPlaces /\ pc'[d] \in OpenPlaces \cup {"done"})
    /\ \A c \in Candles : pc'[c] = pc[c] \/ pc'[c] \in CandlePlaces
    /\ \A o \in Operators :
          \/ pc'[o] = pc[o] /\ call'[o] = call[o]
          \/ /\ pc[o] \in {"idle", "wipe", "fresh"} \cup ClosePlaces \cup ChangePlaces
             /\ pc'[o] \in {"idle", "wipe", "fresh"} \cup ClosePlaces \cup ChangePlaces

(* A step of agent a from place l to place m.                                *)
LEMMA MoveIs ==
    ASSUME PlacesInv, NEW a \in Agents, NEW m, Goto(a, m)
    PROVE  /\ DOMAIN pc' = Agents /\ pc'[a] = m
           /\ \A b \in Agents : b # a => pc'[b] = pc[b]
BY DEF PlacesInv, Goto

LEMMA ReadyFrames ==
    ASSUME PlacesInv, NEW a \in Deliveries \cup Candles, EnsureReady(a) \/ NotReady(a) \/ Hydrate(a)
    PROVE  PaperFrame
<1> USE AgentsAreApart
<1>1. PICK m : Goto(a, m) /\ (a \in Deliveries => m \in {"open", "hydrate", "done"})
                         /\ (a \in Candles => m \in {"mark", "hydrate", "idle"})
  BY DEF EnsureReady, NotReady, Hydrate, Handler, Finish
<1>2. call' = call /\ (a \in Deliveries => pc[a] \in {"approved", "hydrate"})
  BY DEF EnsureReady, NotReady, Hydrate
<1>3. UNCHANGED <<risk, plock, sig, copy, cap, base, version, sent, halt, held>>
  BY DEF EnsureReady, NotReady, Hydrate, portfolioVars, history
<1>4. lost \subseteq lost'
  BY DEF EnsureReady, NotReady, Hydrate, portfolioVars
<1>5. /\ DOMAIN pc' = Agents /\ pc'[a] = m
      /\ \A b \in Agents : b # a => pc'[b] = pc[b]
  BY <1>1, MoveIs
<1> QED
  BY <1>1, <1>2, <1>3, <1>4, <1>5 DEF PaperFrame, PlacesInv, OpenPlaces, CandlePlaces

LEMMA OpenFrames ==
    ASSUME PlacesInv, NEW d \in Deliveries,
           OpenRead(d) \/ OpenPosition(d) \/ DebitAccount(d) \/ OpenError(d)
    PROVE  PaperFrame
<1> USE AgentsAreApart
<1>1. PICK m : Goto(d, m) /\ m \in {"gate", "debit", "done"}
  BY DEF OpenRead, OpenPosition, DebitAccount, OpenError
<1>2. call' = call /\ pc[d] \in {"open", "gate", "debit"}
  BY DEF OpenRead, OpenPosition, DebitAccount, OpenError
<1>3. UNCHANGED <<risk, plock, sig, copy, cap, base, version, sent, halt, held>>
  BY DEF OpenRead, OpenPosition, DebitAccount, OpenError, portfolioVars, history
<1>4. lost \subseteq lost'
  BY DEF OpenRead, OpenPosition, DebitAccount, OpenError, portfolioVars, WriteAccountRow
<1>5. /\ DOMAIN pc' = Agents /\ pc'[d] = m
      /\ \A b \in Agents : b # d => pc'[b] = pc[b]
  BY <1>1, MoveIs
<1> QED
  BY <1>1, <1>2, <1>3, <1>4, <1>5 DEF PaperFrame, PlacesInv, OpenPlaces, CandlePlaces

LEMMA CandleFrames ==
    ASSUME PlacesInv, NEW c \in Candles,
           (\E s \in Symbols : HandleCandle(c, s)) \/ OnCandle(c) \/ PersistPriceUpdates(c)
    PROVE  PaperFrame
<1> USE AgentsAreApart
<1>1. PICK m : Goto(c, m) /\ m \in {"candle", "persist", "idle", "close"}
  BY DEF HandleCandle, OnCandle, PersistPriceUpdates
<1>2. call' = call
  BY DEF HandleCandle, OnCandle, PersistPriceUpdates
<1>3. UNCHANGED <<risk, plock, sig, copy, cap, base, version, sent, halt, held>>
  BY DEF HandleCandle, OnCandle, PersistPriceUpdates, portfolioVars, history
<1>4. lost \subseteq lost'
  BY DEF HandleCandle, OnCandle, PersistPriceUpdates, portfolioVars
<1>5. /\ DOMAIN pc' = Agents /\ pc'[c] = m
      /\ \A b \in Agents : b # c => pc'[b] = pc[b]
  BY <1>1, MoveIs
<1> QED
  BY <1>1, <1>2, <1>3, <1>4, <1>5 DEF PaperFrame, PlacesInv, OpenPlaces, CandlePlaces, ClosePlaces

(* A close or a change of the account, by a candle callback or an operator.  *)
CloseStep(a) ==
    \/ AllClosed(a) \/ ClosePosition(a) \/ InsertTrade(a) \/ ReadBalance(a) \/ CreditAccount(a)
    \/ CloseError(a) \/ ReadForChange(a) \/ WriteChange(a)

LEMMA CloseFrames ==
    ASSUME PlacesInv, NEW a \in Candles \cup Operators, CloseStep(a)
    PROVE  PaperFrame
<1> USE AgentsAreApart
<1>1. PICK m : /\ Goto(a, m)
               /\ m \in {"wipe", "idle"} \cup ClosePlaces \cup ChangePlaces
               /\ a \in Candles => m # "wipe"
  <2>1. CASE ReadForChange(a)
    BY <2>1 DEF ReadForChange, Changes, WriteOf, ChangePlaces
  <2>2. CASE AllClosed(a) \/ WriteChange(a)
    BY <2>2 DEF AllClosed, WriteChange, ChangePlaces, ClosePlaces
  <2>3. CASE ClosePosition(a) \/ InsertTrade(a) \/ ReadBalance(a) \/ CreditAccount(a) \/ CloseError(a)
    BY <2>3 DEF ClosePosition, InsertTrade, ReadBalance, CreditAccount, CloseError,
       ChangePlaces, ClosePlaces
  <2> QED
    BY <2>1, <2>2, <2>3 DEF CloseStep
<1>2. pc[a] \in ClosePlaces \cup ChangePlaces
  BY DEF CloseStep, AllClosed, ClosePosition, InsertTrade, ReadBalance, CreditAccount, CloseError,
     ReadForChange, WriteChange, Changes, ClosePlaces, ChangePlaces
<1>3. DOMAIN call' = Operators /\ \A o \in Operators : o # a => call'[o] = call[o]
  BY DEF CloseStep, AllClosed, ClosePosition, InsertTrade, ReadBalance, CreditAccount, CloseError,
     ReadForChange, WriteChange, PlacesInv
<1>4. UNCHANGED <<risk, plock, sig, copy, cap, base, version, sent, halt, held>>
  BY DEF CloseStep, AllClosed, ClosePosition, InsertTrade, ReadBalance, CreditAccount, CloseError,
     ReadForChange, WriteChange, portfolioVars, history
<1>5. lost \subseteq lost'
  BY DEF CloseStep, AllClosed, ClosePosition, InsertTrade, ReadBalance, CreditAccount, CloseError,
     ReadForChange, WriteChange, portfolioVars, WriteAccountRow
<1>6. /\ DOMAIN pc' = Agents /\ pc'[a] = m
      /\ \A b \in Agents : b # a => pc'[b] = pc[b]
  BY <1>1, MoveIs
<1> QED
  BY <1>1, <1>2, <1>3, <1>4, <1>5, <1>6 DEF PaperFrame, PlacesInv, CandlePlaces

LEMMA CallFrames ==
    ASSUME PlacesInv, NEW o \in Operators,
           \/ \E what \in {"pause", "resume", "reset", "close_all", "hard_reset"} : CallPaper(o, what)
           \/ WipePositions(o) \/ HardReset(o)
    PROVE  PaperFrame
<1> USE AgentsAreApart
<1>1. PICK m : Goto(o, m) /\ m \in {"idle", "fresh"} \cup ClosePlaces \cup ChangePlaces
  BY DEF CallPaper, WipePositions, HardReset, Changes, ClosePlaces, ChangePlaces
<1>2. pc[o] \in {"idle", "wipe", "fresh"}
  BY DEF CallPaper, WipePositions, HardReset
<1>3. DOMAIN call' = Operators /\ \A q \in Operators : q # o => call'[q] = call[q]
  BY DEF CallPaper, WipePositions, HardReset, PlacesInv
<1>4. UNCHANGED <<risk, plock, sig, copy, cap, base, version, sent, halt, held>>
  BY DEF CallPaper, WipePositions, HardReset, portfolioVars, history
<1>5. lost \subseteq lost'
  BY DEF CallPaper, WipePositions, HardReset, portfolioVars
<1>6. /\ DOMAIN pc' = Agents /\ pc'[o] = m
      /\ \A b \in Agents : b # o => pc'[b] = pc[b]
  BY <1>1, MoveIs
<1> QED
  BY <1>1, <1>2, <1>3, <1>4, <1>5, <1>6 DEF PaperFrame, PlacesInv, CandlePlaces

LEMMA FrameKeepsPortfolio ==
    ASSUME PortfolioInv, PaperFrame
    PROVE  PortfolioInv' /\ (HaltInv => HaltInv')
<1> USE AgentsAreApart
<1>1. \A d \in Deliveries : pc'[d] \in {"idle", "state", "create", "allocate", "update", "dispatch"} =>
         pc'[d] = pc[d]
  BY DEF PaperFrame, OpenPlaces
<1>2. \A t \in Tasks : pc'[t] \in {"state", "create", "allocate", "update", "flag"} => pc'[t] = pc[t]
  BY DEF PaperFrame, Tasks, OpenPlaces, ClosePlaces, ChangePlaces
<1>3. PlacesInv'
  BY DEF PortfolioInv, PlacesInv, PaperFrame, DeliveryPlaces, OperatorPlaces
<1>4. PortfolioType'
  <2>1. \A d \in Deliveries : pc'[d] \notin {"idle", "done"} => sig'[d] \in Signals
    BY DEF PortfolioInv, PortfolioType, PaperFrame, OpenPlaces
  <2> QED
    BY <2>1 DEF PortfolioInv, PortfolioType, PaperFrame
<1>5. CopyInv'
  BY <1>1, <1>2 DEF PortfolioInv, CopyInv, PaperFrame
<1>6. DispatchInv'
  BY <1>1 DEF PortfolioInv, DispatchInv, PaperFrame
<1>7. ASSUME HaltInv PROVE HaltInv'
  <2> SUFFICES ASSUME "halt" \notin lost'
               PROVE  HaltKept'
    BY DEF HaltInv
  <2>1. "halt" \notin lost
    BY DEF PaperFrame
  <2>2. ASSUME NEW o \in Operators, ~Resuming(o) PROVE ~Resuming(o)'
    BY <1>2, <2>2 DEF PaperFrame, Resuming, ClosePlaces, ChangePlaces
  <2>3. halt' => risk' \in RiskState /\ risk'.halted /\ \A o \in Operators : ~Resuming(o)'
    BY <1>7, <2>1, <2>2 DEF HaltInv, HaltKept, PaperFrame
  <2>4. ASSUME NEW d \in held'
        PROVE  /\ pc'[d] \in {"allocate", "update", "done"} /\ sent'[d] = 0
               /\ pc'[d] \in {"allocate", "update"} => copy'[d].halted
               /\ pc'[d] = "update" => cap'[d] = 0
    <3>1. d \in held /\ d \in Deliveries
      BY DEF PaperFrame, PortfolioInv, PortfolioType
    <3>2. pc'[d] = pc[d]
      BY <1>7, <2>1, <3>1 DEF HaltInv, HaltKept, PaperFrame, OpenPlaces
    <3> QED
      BY <1>7, <2>1, <3>1, <3>2 DEF HaltInv, HaltKept, PaperFrame
  <2> QED
    BY <2>3, <2>4 DEF HaltKept
<1> QED
  BY <1>3, <1>4, <1>5, <1>6, <1>7 DEF PortfolioInv

-----------------------------------------------------------------------------
(* The portfolio layer                                                      *)

(* Sizing gives a whole amount, no more than is left of the day's capital.   *)
LEMMA AllocateIs ==
    ASSUME NEW r \in RiskState, NEW raw \in RawSizes
    PROVE  Allocate(Available(r), raw) \in Int
<1>1. Available(r) \in Int /\ raw \in Int /\ MaxPerTrade \in Int /\ MinPerTrade \in Int
  BY PortfolioAssumption DEF Available, RiskState
<1>2. /\ Min({Available(r), MaxPerTrade}) \in Int
      /\ Min({raw, MaxPerTrade, Available(r)}) \in Int
  BY <1>1, MinOfTwo, MinOfThree
<1>3. /\ EqualWeight(Available(r)) \in Int /\ ScoreWeighted(Available(r)) \in Int
      /\ FixedRisk(Available(r), raw) \in Int
  BY <1>2 DEF EqualWeight, ScoreWeighted, FixedRisk
<1> HIDE DEF RiskState
<1> QED
  BY <1>3, PortfolioAssumption DEF Allocate

(* What the risk gate admits.                                                *)
LEMMA GateAdmits ==
    ASSUME PortfolioInv, NEW d \in Deliveries, ProcessSignal(d)
    PROVE  /\ cap' \in [Deliveries -> Nat]
           /\ \A e \in Deliveries : e # d => cap'[e] = cap[e]
           /\ cap'[d] > 0 => ~copy[d].halted /\ copy[d].used + cap'[d] <= MaxExposure
<1>1. PICK raw \in RawSizes :
         LET c == Allocate(Available(copy[d]), raw)
             accepted == c > 0 /\ Evaluate(copy[d], sig[d], c)
         IN  cap' = [cap EXCEPT ![d] = IF accepted THEN c ELSE 0]
  BY DEF ProcessSignal
<1>2. copy[d] \in RiskState /\ cap \in [Deliveries -> Nat]
  BY AgentsAreApart DEF PortfolioInv, PortfolioType, CopyInv, ProcessSignal
<1> DEFINE c == Allocate(Available(copy[d]), raw)
<1>3. c \in Int
  BY <1>2, AllocateIs
<1>4. Evaluate(copy[d], sig[d], c) => ~copy[d].halted /\ copy[d].used + c <= MaxExposure
  BY DEF Evaluate, CheckHalt, CheckExposure
<1>5. cap' = [cap EXCEPT ![d] = IF c > 0 /\ Evaluate(copy[d], sig[d], c) THEN c ELSE 0]
  BY <1>1
<1> HIDE DEF c
<1>6. CASE c > 0 /\ Evaluate(copy[d], sig[d], c)
  BY <1>2, <1>3, <1>4, <1>5, <1>6
<1>7. CASE ~(c > 0 /\ Evaluate(copy[d], sig[d], c))
  <2>1. cap' = [cap EXCEPT ![d] = 0]
    BY <1>5, <1>7
  <2> QED
    BY <1>2, <2>1
<1> QED
  BY <1>6, <1>7

LEMMA BookIs ==
    ASSUME NEW r \in RiskState, NEW c \in Nat
    PROVE  Book(r, c) \in RiskState /\ Book(r, c).used = r.used + c /\ Book(r, c).halted = r.halted
<1>1. r.used \in Nat /\ r.open \in Nat /\ r.halted \in BOOLEAN
  BY DEF RiskState
<1>2. r.used + c \in Nat /\ r.open + 1 \in Nat
  BY <1>1
<1>3. Book(r, c).used = r.used + c /\ Book(r, c).open = r.open + 1 /\ Book(r, c).halted = r.halted
  BY DEF Book, RiskState
<1>4. \A x : x = [r EXCEPT !.used = r.used + c, !.open = r.open + 1] => x \in RiskState
  BY <1>1, <1>2 DEF RiskState
<1> QED
  BY <1>3, <1>4 DEF Book

LEMMA HaltedIs ==
    ASSUME NEW r \in RiskState, NEW b \in BOOLEAN
    PROVE  LET h == [r EXCEPT !.halted = b]
           IN  h \in RiskState /\ h.used = r.used /\ h.halted = b
BY DEF RiskState

LEMMA PlaceStep ==
    ASSUME PlacesInv, DOMAIN call' = Operators, NEW a \in Agents, NEW m, Goto(a, m),
           a \in Deliveries => m \in DeliveryPlaces, a \in Candles => m \in CandlePlaces,
           a \in Operators => m \in OperatorPlaces
    PROVE  PlacesInv'
BY MoveIs, AgentsAreApart DEF PlacesInv

(* A delivery takes the pipeline lock.                                      *)
LEMMA HandleSignalPreserves ==
    ASSUME PortfolioInv, NEW d \in Deliveries, NEW s \in Signals, HandleSignal(d, s)
    PROVE  PortfolioInv' /\ (HaltInv => HaltInv')
<1> USE AgentsAreApart, NoneIsNoDocument, FreshRiskIs DEF PortfolioInv, Drop, history
<1>1. PlacesInv'
  <2>1. DOMAIN call' = Operators
    BY DEF HandleSignal, PlacesInv
  <2>2. \E m \in DeliveryPlaces : Goto(d, m)
    BY DEF HandleSignal, DeliveryPlaces, OperatorPlaces, OpenPlaces
  <2> QED
    BY <2>1, <2>2, PlaceStep
<1> USE DEF Goto
<1>2. PortfolioType'
  BY DEF HandleSignal, PlacesInv, PortfolioType, CopyInv
<1>3. CopyInv'
  BY DEF HandleSignal, PlacesInv, PortfolioType, CopyInv
<1>4. DispatchInv'
  BY DEF HandleSignal, PlacesInv, PortfolioType, DispatchInv
<1>5. HaltInv => HaltInv'
  BY DEF HandleSignal, PlacesInv, PortfolioType, CopyInv, DispatchInv, HaltInv, HaltKept, Resuming
<1> QED
  BY <1>1, <1>2, <1>3, <1>4, <1>5

(* An exception ends it.                                                    *)
LEMMA PipelineErrorPreserves ==
    ASSUME PortfolioInv, NEW d \in Deliveries, PipelineError(d)
    PROVE  PortfolioInv' /\ (HaltInv => HaltInv')
<1> USE AgentsAreApart, NoneIsNoDocument, FreshRiskIs DEF PortfolioInv, Drop, history
<1>1. PlacesInv'
  <2>1. DOMAIN call' = Operators
    BY DEF PipelineError, PlacesInv
  <2>2. \E m \in DeliveryPlaces : Goto(d, m)
    BY DEF PipelineError, DeliveryPlaces, OperatorPlaces, OpenPlaces
  <2> QED
    BY <2>1, <2>2, PlaceStep
<1> USE DEF Goto
<1>2. PortfolioType'
  BY DEF PipelineError, PlacesInv, PortfolioType, CopyInv
<1>3. CopyInv'
  BY DEF PipelineError, PlacesInv, PortfolioType, CopyInv
<1>4. DispatchInv'
  BY DEF PipelineError, PlacesInv, PortfolioType, DispatchInv
<1>5. HaltInv => HaltInv'
  BY DEF PipelineError, PlacesInv, PortfolioType, CopyInv, DispatchInv, HaltInv, HaltKept, Resuming
<1> QED
  BY <1>1, <1>2, <1>3, <1>4, <1>5

(* A delivery that reads under a halt reads a halted document.              *)
LEMMA GetRiskStatePreserves ==
    ASSUME PortfolioInv, NEW t \in Tasks, GetRiskState(t)
    PROVE  PortfolioInv' /\ (HaltInv => HaltInv')
<1> USE AgentsAreApart, NoneIsNoDocument, FreshRiskIs DEF PortfolioInv, Drop, history
<1>1. PlacesInv'
  <2>1. DOMAIN call' = Operators
    BY DEF GetRiskState, PlacesInv
  <2>2. \E m \in {"create", "flag", "allocate"} :
           /\ Goto(t, m)
           /\ t \in Deliveries => m # "flag"
           /\ t \in Operators => m # "allocate"
    BY DEF GetRiskState, AfterState
  <2> QED
    BY <2>1, <2>2, PlaceStep DEF Tasks, DeliveryPlaces, OperatorPlaces
<1> USE DEF Goto
<1>2. PortfolioType'
  BY DEF GetRiskState, PlacesInv, PortfolioType, CopyInv, GetForDate, AfterState
<1>3. CopyInv'
  BY DEF GetRiskState, PlacesInv, PortfolioType, CopyInv, GetForDate, AfterState
<1>4. DispatchInv'
  BY DEF GetRiskState, PlacesInv, PortfolioType, DispatchInv, GetForDate, AfterState
<1>5. HaltInv => HaltInv'
  BY DEF GetRiskState, PlacesInv, PortfolioType, CopyInv, DispatchInv, HaltInv, HaltKept, Resuming, GetForDate, AfterState
<1> QED
  BY <1>1, <1>2, <1>3, <1>4, <1>5

(* A document created over another one loses its halt.                      *)
LEMMA CreateRiskStatePreserves ==
    ASSUME PortfolioInv, NEW t \in Tasks, CreateRiskState(t)
    PROVE  PortfolioInv' /\ (HaltInv => HaltInv')
<1> USE AgentsAreApart, NoneIsNoDocument, FreshRiskIs DEF PortfolioInv, Drop, history
<1>1. PlacesInv'
  <2>1. DOMAIN call' = Operators
    BY DEF CreateRiskState, PlacesInv
  <2>2. \E m \in {"create", "flag", "allocate"} :
           /\ Goto(t, m)
           /\ t \in Deliveries => m # "flag"
           /\ t \in Operators => m # "allocate"
    BY DEF CreateRiskState, AfterState
  <2> QED
    BY <2>1, <2>2, PlaceStep DEF Tasks, DeliveryPlaces, OperatorPlaces
<1> USE DEF Goto
<1>2. PortfolioType'
  BY DEF CreateRiskState, PlacesInv, PortfolioType, CopyInv, UpsertRisk, Undoes, AfterState
<1>3. CopyInv'
  BY DEF CreateRiskState, PlacesInv, PortfolioType, CopyInv, UpsertRisk, Undoes, AfterState
<1>4. DispatchInv'
  BY DEF CreateRiskState, PlacesInv, PortfolioType, DispatchInv, UpsertRisk, Undoes, AfterState
<1>5. HaltInv => HaltInv'
  BY DEF CreateRiskState, PlacesInv, PortfolioType, CopyInv, DispatchInv, HaltInv, HaltKept, Resuming, UpsertRisk, Undoes, AfterState
<1> QED
  BY <1>1, <1>2, <1>3, <1>4, <1>5

(* The document written back is halted, or its copy is outdated.            *)
LEMMA UpdateRiskStatePreserves ==
    ASSUME PortfolioInv, NEW d \in Deliveries, UpdateRiskState(d)
    PROVE  PortfolioInv' /\ (HaltInv => HaltInv')
<1> USE AgentsAreApart, NoneIsNoDocument, FreshRiskIs DEF PortfolioInv, Drop, history
<1>1. PlacesInv'
  <2>1. DOMAIN call' = Operators
    BY DEF UpdateRiskState, PlacesInv
  <2>2. \E m \in DeliveryPlaces : Goto(d, m)
    BY DEF UpdateRiskState, DeliveryPlaces, OperatorPlaces, OpenPlaces
  <2> QED
    BY <2>1, <2>2, PlaceStep
<1> USE DEF Goto
<1>2. PortfolioType'
  <2>1. copy[d] \in RiskState /\ Book(copy[d], cap[d]) \in RiskState
    BY BookIs DEF UpdateRiskState, CopyInv, PortfolioType
  <2> QED
    BY <2>1 DEF UpdateRiskState, UpsertRisk, PlacesInv, PortfolioType
<1>3. CopyInv'
  BY DEF UpdateRiskState, PlacesInv, PortfolioType, CopyInv, UpsertRisk, Undoes, Book, RiskState
<1>4. DispatchInv'
  BY DEF UpdateRiskState, PlacesInv, PortfolioType, DispatchInv, UpsertRisk, Undoes, Book, RiskState
<1>5. ASSUME HaltInv PROVE HaltInv'
  <2>1. SUFFICES ASSUME "halt" \notin lost' PROVE HaltKept'
    BY DEF HaltInv
  <2>2. copy[d] \in RiskState /\ cap[d] \in Nat /\ base[d] = version /\ copy[d] = risk
    BY <2>1 DEF UpdateRiskState, UpsertRisk, Undoes, CopyInv, PortfolioType
  <2>3. "halt" \notin lost
    BY <2>1 DEF UpdateRiskState, UpsertRisk
  <2>4. risk' \in RiskState /\ risk'.halted = copy[d].halted
    BY <2>2, BookIs DEF UpdateRiskState, UpsertRisk
  <2>5. \A o \in Operators : Resuming(o)' = Resuming(o)
    BY DEF UpdateRiskState, Resuming, PlacesInv
  <2>6. halt' = halt /\ held' = held /\ sent' = sent /\ cap' = cap
    BY DEF UpdateRiskState
  <2>7. \A e \in Deliveries : e # d => pc'[e] = pc[e] /\ copy'[e] = copy[e]
    BY DEF UpdateRiskState, PlacesInv, PortfolioType
  <2>8. d \in held => pc'[d] = "done"
    BY <1>5, <2>3 DEF UpdateRiskState, HaltInv, HaltKept, PlacesInv
  <2>9. held \subseteq Deliveries /\ HaltKept
    BY <1>5, <2>3 DEF PortfolioType, HaltInv
  <2>10. halt' => risk' \in RiskState /\ risk'.halted /\ \A o \in Operators : ~Resuming(o)'
    BY <2>2, <2>4, <2>5, <2>6, <2>9 DEF HaltKept
  <2>11. ASSUME NEW e \in held'
         PROVE  /\ pc'[e] \in {"allocate", "update", "done"} /\ sent'[e] = 0
                /\ pc'[e] \in {"allocate", "update"} => copy'[e].halted
                /\ pc'[e] = "update" => cap'[e] = 0
    BY <2>6, <2>7, <2>8, <2>9, <2>11 DEF HaltKept
  <2> QED
    BY <2>10, <2>11 DEF HaltKept
<1> QED
  BY <1>1, <1>2, <1>3, <1>4, <1>5

(* Only a delivery with capital is dispatched.                              *)
LEMMA DispatchApprovedPreserves ==
    ASSUME PortfolioInv, NEW d \in Deliveries, DispatchApproved(d)
    PROVE  PortfolioInv' /\ (HaltInv => HaltInv')
<1> USE AgentsAreApart, NoneIsNoDocument, FreshRiskIs DEF PortfolioInv, Drop, history
<1>1. PlacesInv'
  <2>1. DOMAIN call' = Operators
    BY DEF DispatchApproved, PlacesInv
  <2>2. \E m \in DeliveryPlaces : Goto(d, m)
    BY DEF DispatchApproved, DeliveryPlaces, OperatorPlaces, OpenPlaces
  <2> QED
    BY <2>1, <2>2, PlaceStep
<1> USE DEF Goto
<1>2. PortfolioType'
  BY DEF DispatchApproved, PlacesInv, PortfolioType, CopyInv
<1>3. CopyInv'
  BY DEF DispatchApproved, PlacesInv, PortfolioType, CopyInv
<1>4. DispatchInv'
  BY DEF DispatchApproved, PlacesInv, PortfolioType, DispatchInv
<1>5. HaltInv => HaltInv'
  BY DEF DispatchApproved, PlacesInv, PortfolioType, CopyInv, DispatchInv, HaltInv, HaltKept, Resuming
<1> QED
  BY <1>1, <1>2, <1>3, <1>4, <1>5

(* A call of resume_today ends the claim that a halt is in force.           *)
LEMMA CallHaltPreserves ==
    ASSUME PortfolioInv, NEW o \in Operators, NEW what \in {"halt", "resume"}, CallHalt(o, what)
    PROVE  PortfolioInv' /\ (HaltInv => HaltInv')
<1> USE AgentsAreApart, NoneIsNoDocument, FreshRiskIs DEF PortfolioInv, Drop, history
<1>1. PlacesInv'
  <2>1. DOMAIN call' = Operators
    BY DEF CallHalt, PlacesInv
  <2>2. \E m \in OperatorPlaces : Goto(o, m)
    BY DEF CallHalt, DeliveryPlaces, OperatorPlaces, OpenPlaces
  <2> QED
    BY <2>1, <2>2, PlaceStep
<1> USE DEF Goto
<1>2. PortfolioType'
  BY DEF CallHalt, PlacesInv, PortfolioType, CopyInv
<1>3. CopyInv'
  BY DEF CallHalt, PlacesInv, PortfolioType, CopyInv
<1>4. DispatchInv'
  BY DEF CallHalt, PlacesInv, PortfolioType, DispatchInv
<1>5. HaltInv => HaltInv'
  BY DEF CallHalt, PlacesInv, PortfolioType, CopyInv, DispatchInv, HaltInv, HaltKept, Resuming
<1> QED
  BY <1>1, <1>2, <1>3, <1>4, <1>5

(* The halt.                                                                *)
LEMMA HaltTodayPreserves ==
    ASSUME PortfolioInv, NEW o \in Operators, HaltToday(o)
    PROVE  PortfolioInv' /\ (HaltInv => HaltInv')
<1> USE AgentsAreApart, NoneIsNoDocument, FreshRiskIs DEF PortfolioInv, Drop, history
<1>1. PlacesInv'
  <2>1. DOMAIN call' = Operators
    BY DEF HaltToday, PlacesInv
  <2>2. \E m \in OperatorPlaces : Goto(o, m)
    BY DEF HaltToday, DeliveryPlaces, OperatorPlaces, OpenPlaces
  <2> QED
    BY <2>1, <2>2, PlaceStep
<1> USE DEF Goto
<1>2. PortfolioType'
  <2>1. [copy[o] EXCEPT !.halted = TRUE] \in RiskState
    BY HaltedIs DEF HaltToday, CopyInv
  <2> QED
    BY <2>1 DEF HaltToday, UpsertRisk, PlacesInv, PortfolioType
<1>3. CopyInv'
  BY DEF HaltToday, PlacesInv, PortfolioType, CopyInv, UpsertRisk, Undoes, RiskState
<1>4. DispatchInv'
  BY DEF HaltToday, PlacesInv, PortfolioType, DispatchInv, UpsertRisk, Undoes, RiskState
<1>5. HaltInv => HaltInv'
  <2> SUFFICES ASSUME HaltInv, "halt" \notin lost' PROVE HaltKept'
    BY DEF HaltInv
  <2>1. HaltKept
    BY DEF HaltInv, HaltToday, UpsertRisk
  <2>2. /\ halt' = ~ \E q \in Operators : Resuming(q)
        /\ risk' = [copy[o] EXCEPT !.halted = TRUE] /\ copy[o] \in RiskState
        /\ UNCHANGED <<cap, sent, held>>
    BY DEF HaltToday, UpsertRisk, CopyInv
  <2>3. risk' \in RiskState /\ risk'.halted
    BY <2>2 DEF RiskState
  <2>4. \A q \in Operators : q # o => call'[q] = call[q] /\ pc'[q] = pc[q]
    BY DEF HaltToday, PlacesInv
  <2>5. pc'[o] = "idle" /\ \A d \in Deliveries : pc'[d] = pc[d] /\ copy'[d] = copy[d]
    BY DEF HaltToday, PlacesInv, PortfolioType
  <2>6. \A q \in Operators : Resuming(q)' => Resuming(q)
    BY <2>4, <2>5 DEF Resuming
  <2>7. held \subseteq Deliveries
    BY DEF PortfolioType
  <2> QED
    BY <2>1, <2>2, <2>3, <2>5, <2>6, <2>7 DEF HaltKept
<1> QED
  BY <1>1, <1>2, <1>3, <1>4, <1>5

(* The resumption.                                                          *)
LEMMA ResumeTodayPreserves ==
    ASSUME PortfolioInv, NEW o \in Operators, ResumeToday(o)
    PROVE  PortfolioInv' /\ (HaltInv => HaltInv')
<1> USE AgentsAreApart, NoneIsNoDocument, FreshRiskIs DEF PortfolioInv, Drop, history
<1>1. PlacesInv'
  <2>1. DOMAIN call' = Operators
    BY DEF ResumeToday, PlacesInv
  <2>2. \E m \in OperatorPlaces : Goto(o, m)
    BY DEF ResumeToday, DeliveryPlaces, OperatorPlaces, OpenPlaces
  <2> QED
    BY <2>1, <2>2, PlaceStep
<1> USE DEF Goto
<1>2. PortfolioType'
  <2>1. [copy[o] EXCEPT !.halted = FALSE] \in RiskState
    BY HaltedIs DEF ResumeToday, CopyInv
  <2> QED
    BY <2>1 DEF ResumeToday, UpsertRisk, PlacesInv, PortfolioType
<1>3. CopyInv'
  BY DEF ResumeToday, PlacesInv, PortfolioType, CopyInv, UpsertRisk, Undoes, RiskState
<1>4. DispatchInv'
  BY DEF ResumeToday, PlacesInv, PortfolioType, DispatchInv, UpsertRisk, Undoes, RiskState
<1>5. HaltInv => HaltInv'
  BY DEF ResumeToday, PlacesInv, PortfolioType, CopyInv, DispatchInv, HaltInv, HaltKept, Resuming, UpsertRisk, Undoes, RiskState
<1> QED
  BY <1>1, <1>2, <1>3, <1>4, <1>5

(* The gate of a halted copy gives nothing.                                  *)
LEMMA ProcessSignalPreserves ==
    ASSUME PortfolioInv, NEW d \in Deliveries, ProcessSignal(d)
    PROVE  PortfolioInv' /\ (HaltInv => HaltInv')
<1> USE AgentsAreApart, NoneIsNoDocument DEF PortfolioInv, history
<1>1. PlacesInv'
  <2>1. DOMAIN call' = Operators
    BY DEF ProcessSignal, PlacesInv
  <2>2. \E m \in DeliveryPlaces : Goto(d, m)
    BY DEF ProcessSignal, DeliveryPlaces
  <2> QED
    BY <2>1, <2>2, PlaceStep
<1>2. UNCHANGED <<risk, plock, call, sig, copy, base, lost, version, sent, halt, held>>
  BY DEF ProcessSignal
<1>3. pc[d] = "allocate" /\ pc'[d] = "update" /\ \A a \in Agents : a # d => pc'[a] = pc[a]
  BY DEF ProcessSignal, Goto, PlacesInv
<1>4. /\ cap' \in [Deliveries -> Nat]
      /\ \A e \in Deliveries : e # d => cap'[e] = cap[e]
      /\ cap'[d] > 0 => ~copy[d].halted
  BY GateAdmits
<1>5. PortfolioType'
  BY <1>2, <1>3, <1>4 DEF PortfolioType
<1>6. CopyInv' /\ DispatchInv'
  BY <1>2, <1>3 DEF CopyInv, DispatchInv
<1>7. ASSUME HaltInv PROVE HaltInv'
  <2>1. \A o \in Operators : Resuming(o)' = Resuming(o)
    BY <1>2, <1>3 DEF Resuming
  <2>2. d \in held /\ "halt" \notin lost => cap'[d] = 0
    BY <1>3, <1>4, <1>7 DEF HaltInv, HaltKept
  <2> QED
    BY <1>2, <1>3, <1>4, <1>7, <2>1, <2>2 DEF HaltInv, HaltKept, PortfolioType
<1> QED
  BY <1>1, <1>5, <1>6, <1>7

(* After a restart nobody holds a copy, and no call is under way.            *)
LEMMA RestartPreserves ==
    ASSUME PortfolioInv, Restart
    PROVE  PortfolioInv' /\ (HaltInv => HaltInv')
<1> USE AgentsAreApart DEF PortfolioInv
<1>1. UNCHANGED <<risk, sig, version, sent, halt, held>> /\ lost \subseteq lost'
  BY DEF Restart, history
<1>2. /\ pc' = [a \in Agents |-> IF a \in Deliveries /\ pc[a] # "idle" THEN "done" ELSE "idle"]
      /\ call' = [o \in Operators |-> None]
  BY DEF Restart
<1>3. /\ copy' = [t \in Tasks |-> None] /\ base' = [t \in Tasks |-> 0]
      /\ cap' = [d \in Deliveries |-> 0]
  BY DEF Restart
<1>4. PlacesInv'
  BY <1>2 DEF PlacesInv, DeliveryPlaces, CandlePlaces, OperatorPlaces
<1>5. PortfolioType'
  BY <1>1, <1>2, <1>3 DEF PortfolioType
<1>6. CopyInv'
  BY <1>2 DEF CopyInv
<1>7. DispatchInv'
  BY <1>1, <1>2 DEF DispatchInv
<1>8. ASSUME HaltInv PROVE HaltInv'
  <2>1. \A o \in Operators : ~Resuming(o)'
    BY <1>2 DEF Resuming
  <2>2. \A d \in held : "halt" \notin lost => pc'[d] = "done"
    BY <1>2, <1>8 DEF HaltInv, HaltKept, PortfolioType
  <2> QED
    BY <1>1, <1>8, <2>1, <2>2 DEF HaltInv, HaltKept
<1> QED
  BY <1>4, <1>5, <1>6, <1>7, <1>8

LEMMA PaperFrames ==
    ASSUME PlacesInv, Next, ~(PortfolioNext /\ UNCHANGED paperVars), ~Restart
    PROVE  PaperFrame
<1>1. CASE \E a \in Deliveries \cup Candles : EnsureReady(a) \/ NotReady(a) \/ Hydrate(a)
  BY <1>1, ReadyFrames
<1>2. CASE \E d \in Deliveries : OpenRead(d) \/ OpenPosition(d) \/ DebitAccount(d) \/ OpenError(d)
  BY <1>2, OpenFrames
<1>3. CASE \E c \in Candles :
              (\E s \in Symbols : HandleCandle(c, s)) \/ OnCandle(c) \/ PersistPriceUpdates(c)
  BY <1>3, CandleFrames
<1>4. CASE \E a \in Candles \cup Operators : CloseStep(a)
  BY <1>4, CloseFrames
<1>5. CASE \E o \in Operators :
              \/ \E what \in {"pause", "resume", "reset", "close_all", "hard_reset"} : CallPaper(o, what)
              \/ WipePositions(o) \/ HardReset(o)
  BY <1>5, CallFrames
<1> QED
  BY <1>1, <1>2, <1>3, <1>4, <1>5 DEF Next, Step, CloseStep

LEMMA PortfolioStep ==
    PortfolioInv /\ [Next]_vars => PortfolioInv' /\ (HaltInv => HaltInv')
<1> SUFFICES ASSUME PortfolioInv, [Next]_vars
             PROVE  PortfolioInv' /\ (HaltInv => HaltInv')
  OBVIOUS
<1>1. CASE PortfolioNext
  BY <1>1, HandleSignalPreserves, PipelineErrorPreserves, ProcessSignalPreserves,
     UpdateRiskStatePreserves, DispatchApprovedPreserves, GetRiskStatePreserves,
     CreateRiskStatePreserves, CallHaltPreserves, HaltTodayPreserves, ResumeTodayPreserves
     DEF PortfolioNext
<1>2. CASE Restart
  BY <1>2, RestartPreserves
<1>3. CASE Next /\ ~PortfolioNext /\ ~Restart
  <2>1. PaperFrame
    BY <1>3, PaperFrames DEF PortfolioInv
  <2> QED
    BY <2>1, FrameKeepsPortfolio
<1>4. CASE UNCHANGED vars
  <2>1. PaperFrame
    BY <1>4 DEF vars, portfolioVars, history, PaperFrame, PortfolioInv, PlacesInv
  <2> QED
    BY <2>1, FrameKeepsPortfolio
<1> QED
  BY <1>1, <1>2, <1>3, <1>4 DEF Next

(* The risk state, its copies and the pipeline lock are as described in      *)
(* every reachable state.                                                    *)
THEOREM PortfolioInvariant == Spec => [](PortfolioInv /\ HaltInv)
<1>1. (PortfolioInv /\ HaltInv) /\ [Next]_vars => (PortfolioInv /\ HaltInv)'
  BY PortfolioStep
<1> QED
  BY PortfolioInvInit, <1>1, PTL DEF Spec

(* A delivery that reads the day's risk state while a halt is in force is    *)
(* never dispatched, whatever the other deliveries, operators and restarts   *)
(* do, unless a write from an outdated copy has undone the halt.             *)
THEOREM HaltHoldsTheorem == Spec => []HaltHolds
<1>1. PortfolioInv /\ HaltInv => HaltHolds
  BY DEF HaltInv, HaltKept, HaltHolds
<1> QED
  BY <1>1, PortfolioInvariant, PTL

-----------------------------------------------------------------------------
(* The capital handed out                                                   *)

Used(r) == IF r = None THEN 0 ELSE r.used

(* The capital of a delivery from the moment it is booked.                   *)
Handed == [d \in Deliveries |-> IF pc[d] = "dispatch" THEN cap[d] ELSE sent[d]]

(* What was handed out is booked, and what is booked is within the limit,    *)
(* the copies of the delivery that holds the lock included.                  *)
ExposureKept ==
    /\ SumOf(Handed, Deliveries) <= Used(risk) /\ Used(risk) <= MaxExposure
    /\ \A d \in Deliveries :
          /\ pc[d] \in {"create", "allocate", "update"} => Used(copy[d]) = Used(risk)
          /\ pc[d] = "update" => Used(copy[d]) + cap[d] <= MaxExposure
ExposureInv == "capital" \notin lost => ExposureKept

LEMMA HandedIs ==
    ASSUME PortfolioInv
    PROVE  /\ \A d \in Deliveries : Handed[d] \in Nat
           /\ SumOf(Handed, Deliveries) \in Nat /\ Used(risk) \in Nat
           /\ IsFiniteSet(Deliveries) /\ MaxExposure \in Nat
<1>1. \A d \in Deliveries : Handed[d] \in Nat
  BY DEF PortfolioInv, PortfolioType, Handed
<1>2. IsFiniteSet(Deliveries) /\ MaxExposure \in Nat
  BY PortfolioAssumption
<1>3. SumOf(Handed, Deliveries) \in Nat
  BY <1>1, <1>2, SumOfNatural
<1>4. Used(risk) \in Nat
  BY DEF PortfolioInv, PortfolioType, Used, RiskState
<1> QED
  BY <1>1, <1>2, <1>3, <1>4

LEMMA ExposureInvInit == Init => ExposureInv
<1> SUFFICES ASSUME Init PROVE ExposureKept
  BY DEF ExposureInv
<1>1. PortfolioInv
  BY PortfolioInvInit
<1>2. \A d \in Deliveries : pc[d] = "idle" /\ sent[d] = 0
  BY AgentsAreApart DEF Init, PortfolioInit
<1>3. risk = None
  BY DEF Init, PortfolioInit
<1> DEFINE zero == [d \in Deliveries |-> 0]
<1>4. Handed = zero
  BY <1>2 DEF Handed
<1>5. SumOf(zero, Deliveries) <= 0
  <2> DEFINE G == {T \in SUBSET Deliveries : SumOf(zero, T) = 0}
  <2>1. ASSUME NEW T \in SUBSET Deliveries, \A U \in SUBSET T : U # T => U \in G PROVE T \in G
    <3>1. CASE T = {}
      BY <3>1, SumOfEmpty
    <3>2. CASE T # {}
      <4>1. PICK y \in T : TRUE
        BY <3>2
      <4>2. IsFiniteSet(T) /\ \A x \in T : zero[x] \in Int
        BY PortfolioAssumption, FS_Subset
      <4>3. SumOf(zero, T) = zero[y] + SumOf(zero, T \ {y})
        BY <4>1, <4>2, SumOfRemove
      <4> QED
        BY <2>1, <4>1, <4>3
    <3> QED
      BY <3>1, <3>2
  <2>2. IsFiniteSet(Deliveries)
    BY PortfolioAssumption
  <2> HIDE DEF G
  <2>3. Deliveries \in G
    BY <2>1, <2>2, SubsetInduction
  <2> QED
    BY <2>3 DEF G
<1> HIDE DEF zero
<1>6. Used(risk) = 0 /\ 0 <= MaxExposure
  BY <1>3, PortfolioAssumption DEF Used
<1> QED
  BY <1>2, <1>4, <1>5, <1>6 DEF ExposureKept

(* A step that books nothing and replaces no booked capital.                 *)
LEMMA ExposureStays ==
    ASSUME ExposureKept, Handed' = Handed, Used(risk)' = Used(risk),
           \A d \in Deliveries :
              /\ pc'[d] \in {"create", "allocate", "update"} => Used(copy'[d]) = Used(risk)'
              /\ pc'[d] = "update" => Used(copy'[d]) + cap'[d] <= MaxExposure
    PROVE  ExposureKept'
<1>1. SumOf(Handed, Deliveries)' = SumOf(Handed, Deliveries)
  OBVIOUS
<1> QED
  BY <1>1 DEF ExposureKept, Used

LEMMA FrameKeepsExposure ==
    ASSUME PortfolioInv, ExposureInv, PaperFrame
    PROVE  ExposureInv'
<1> SUFFICES ASSUME "capital" \notin lost' PROVE ExposureKept'
  BY DEF ExposureInv
<1>1. ExposureKept
  BY DEF ExposureInv, PaperFrame
<1>2. \A d \in Deliveries : pc'[d] \in {"create", "allocate", "update", "dispatch"} \/
                             pc[d] \in {"create", "allocate", "update", "dispatch"} => pc'[d] = pc[d]
  BY DEF PaperFrame, OpenPlaces
<1>3. Handed' = Handed
  BY <1>2 DEF Handed, PaperFrame
<1>4. Used(risk)' = Used(risk)
  BY DEF PaperFrame, Used
<1> QED
  BY <1>1, <1>2, <1>3, <1>4, ExposureStays DEF ExposureKept, PaperFrame

(* Waiting deliveries have no capital.                                      *)
LEMMA HandleSignalKeepsExposure ==
    ASSUME PortfolioInv, ExposureInv, NEW d \in Deliveries, NEW s \in Signals, HandleSignal(d, s)
    PROVE  ExposureInv'
<1> USE AgentsAreApart, NoneIsNoDocument, FreshRiskIs DEF PortfolioInv, Goto, Drop, history
<1> SUFFICES ASSUME "capital" \notin lost' PROVE ExposureKept'
  BY DEF ExposureInv
<1>1. ExposureKept
  BY DEF ExposureInv, HandleSignal
<1>2. Handed' = Handed
  BY DEF Handed, HandleSignal, PlacesInv, PortfolioType
<1>3. Used(risk)' = Used(risk)
  BY DEF HandleSignal, Used
<1>4. ASSUME NEW e \in Deliveries
      PROVE  /\ pc'[e] \in {"create", "allocate", "update"} => Used(copy'[e]) = Used(risk)'
             /\ pc'[e] = "update" => Used(copy'[e]) + cap'[e] <= MaxExposure
  BY <1>1, <1>3 DEF ExposureKept, HandleSignal, PlacesInv, PortfolioType, Used
<1> QED
  BY <1>1, <1>2, <1>3, <1>4, ExposureStays

(* Nor do those that failed.                                                *)
LEMMA PipelineErrorKeepsExposure ==
    ASSUME PortfolioInv, ExposureInv, NEW d \in Deliveries, PipelineError(d)
    PROVE  ExposureInv'
<1> USE AgentsAreApart, NoneIsNoDocument, FreshRiskIs DEF PortfolioInv, Goto, Drop, history
<1> SUFFICES ASSUME "capital" \notin lost' PROVE ExposureKept'
  BY DEF ExposureInv
<1>1. ExposureKept
  BY DEF ExposureInv, PipelineError
<1>2. Handed' = Handed
  BY DEF Handed, PipelineError, PlacesInv, PortfolioType
<1>3. Used(risk)' = Used(risk)
  BY DEF PipelineError, Used
<1>4. ASSUME NEW e \in Deliveries
      PROVE  /\ pc'[e] \in {"create", "allocate", "update"} => Used(copy'[e]) = Used(risk)'
             /\ pc'[e] = "update" => Used(copy'[e]) + cap'[e] <= MaxExposure
  BY <1>1, <1>3 DEF ExposureKept, PipelineError, PlacesInv, PortfolioType, Used
<1> QED
  BY <1>1, <1>2, <1>3, <1>4, ExposureStays

(* A fresh copy is the document.                                            *)
LEMMA GetRiskStateKeepsExposure ==
    ASSUME PortfolioInv, ExposureInv, NEW t \in Tasks, GetRiskState(t)
    PROVE  ExposureInv'
<1> USE AgentsAreApart, NoneIsNoDocument, FreshRiskIs DEF PortfolioInv, Goto, Drop, history
<1> SUFFICES ASSUME "capital" \notin lost' PROVE ExposureKept'
  BY DEF ExposureInv
<1>1. ExposureKept
  BY DEF ExposureInv, GetRiskState, GetForDate, AfterState
<1>2. Handed' = Handed
  BY DEF Handed, GetRiskState, PlacesInv, PortfolioType, AfterState
<1>3. Used(risk)' = Used(risk)
  BY DEF GetRiskState, Used
<1>4. ASSUME NEW e \in Deliveries
      PROVE  /\ pc'[e] \in {"create", "allocate", "update"} => Used(copy'[e]) = Used(risk)'
             /\ pc'[e] = "update" => Used(copy'[e]) + cap'[e] <= MaxExposure
  BY <1>1, <1>3 DEF ExposureKept, GetRiskState, PlacesInv, PortfolioType, Used, GetForDate, AfterState
<1> QED
  BY <1>1, <1>2, <1>3, <1>4, ExposureStays

(* Booked capital is handed out.                                            *)
LEMMA DispatchApprovedKeepsExposure ==
    ASSUME PortfolioInv, ExposureInv, NEW d \in Deliveries, DispatchApproved(d)
    PROVE  ExposureInv'
<1> USE AgentsAreApart, NoneIsNoDocument, FreshRiskIs DEF PortfolioInv, Goto, Drop, history
<1> SUFFICES ASSUME "capital" \notin lost' PROVE ExposureKept'
  BY DEF ExposureInv
<1>1. ExposureKept
  BY DEF ExposureInv, DispatchApproved
<1>2. Handed' = Handed
  BY DEF Handed, DispatchApproved, PlacesInv, PortfolioType
<1>3. Used(risk)' = Used(risk)
  BY DEF DispatchApproved, Used
<1>4. ASSUME NEW e \in Deliveries
      PROVE  /\ pc'[e] \in {"create", "allocate", "update"} => Used(copy'[e]) = Used(risk)'
             /\ pc'[e] = "update" => Used(copy'[e]) + cap'[e] <= MaxExposure
  BY <1>1, <1>3 DEF ExposureKept, DispatchApproved, PlacesInv, PortfolioType, Used
<1> QED
  BY <1>1, <1>2, <1>3, <1>4, ExposureStays

(* Calls book nothing.                                                      *)
LEMMA CallHaltKeepsExposure ==
    ASSUME PortfolioInv, ExposureInv, NEW o \in Operators, NEW what \in {"halt", "resume"}, CallHalt(o, what)
    PROVE  ExposureInv'
<1> USE AgentsAreApart, NoneIsNoDocument, FreshRiskIs DEF PortfolioInv, Goto, Drop, history
<1> SUFFICES ASSUME "capital" \notin lost' PROVE ExposureKept'
  BY DEF ExposureInv
<1>1. ExposureKept
  BY DEF ExposureInv, CallHalt
<1>2. Handed' = Handed
  BY DEF Handed, CallHalt, PlacesInv, PortfolioType
<1>3. Used(risk)' = Used(risk)
  BY DEF CallHalt, Used
<1>4. ASSUME NEW e \in Deliveries
      PROVE  /\ pc'[e] \in {"create", "allocate", "update"} => Used(copy'[e]) = Used(risk)'
             /\ pc'[e] = "update" => Used(copy'[e]) + cap'[e] <= MaxExposure
  BY <1>1, <1>3 DEF ExposureKept, CallHalt, PlacesInv, PortfolioType, Used
<1> QED
  BY <1>1, <1>2, <1>3, <1>4, ExposureStays

(* The created document is empty, and so was what it replaces.              *)
LEMMA CreateRiskStateKeepsExposure ==
    ASSUME PortfolioInv, ExposureInv, NEW t \in Tasks, CreateRiskState(t)
    PROVE  ExposureInv'
<1> USE AgentsAreApart, NoneIsNoDocument, FreshRiskIs DEF PortfolioInv, Goto, Drop, history
<1> SUFFICES ASSUME "capital" \notin lost' PROVE ExposureKept'
  BY DEF ExposureInv
<1>1. ExposureKept
  BY DEF ExposureInv, CreateRiskState, UpsertRisk, AfterState
<1>2. Handed' = Handed
  BY DEF Handed, CreateRiskState, PlacesInv, PortfolioType, AfterState
<1>3. Used(risk)' = Used(risk)
  <2>1. CASE t \in Operators
    <3>1. risk = None
      BY <2>1 DEF CreateRiskState, UpsertRisk, Undoes, CopyInv
    <3> QED
      BY <3>1 DEF CreateRiskState, UpsertRisk, Used
  <2>2. CASE t \in Deliveries
    BY <1>1, <2>2 DEF CreateRiskState, UpsertRisk, Used, CopyInv, ExposureKept
  <2> QED
    BY <2>1, <2>2 DEF Tasks
<1>4. ASSUME NEW e \in Deliveries
      PROVE  /\ pc'[e] \in {"create", "allocate", "update"} => Used(copy'[e]) = Used(risk)'
             /\ pc'[e] = "update" => Used(copy'[e]) + cap'[e] <= MaxExposure
  BY <1>1, <1>3 DEF ExposureKept, CreateRiskState, PlacesInv, PortfolioType, Used, UpsertRisk, AfterState
<1> QED
  BY <1>1, <1>2, <1>3, <1>4, ExposureStays

(* A halt that loses nothing writes the booked capital back.                *)
LEMMA HaltTodayKeepsExposure ==
    ASSUME PortfolioInv, ExposureInv, NEW o \in Operators, HaltToday(o)
    PROVE  ExposureInv'
<1> USE AgentsAreApart, NoneIsNoDocument, FreshRiskIs DEF PortfolioInv, Goto, Drop, history
<1> SUFFICES ASSUME "capital" \notin lost' PROVE ExposureKept'
  BY DEF ExposureInv
<1>1. ExposureKept
  BY DEF ExposureInv, HaltToday, UpsertRisk
<1>2. Handed' = Handed
  BY DEF Handed, HaltToday, PlacesInv, PortfolioType
<1>3. Used(risk)' = Used(risk)
  <2>1. risk = copy[o] /\ copy[o] \in RiskState
    BY DEF HaltToday, UpsertRisk, Undoes, CopyInv
  <2>2. risk' = [copy[o] EXCEPT !.halted = TRUE]
    BY DEF HaltToday, UpsertRisk
  <2>3. risk' \in RiskState /\ risk'.used = copy[o].used
    BY <2>1, <2>2, HaltedIs
  <2> QED
    BY <2>1, <2>3 DEF Used
<1>4. ASSUME NEW e \in Deliveries
      PROVE  /\ pc'[e] \in {"create", "allocate", "update"} => Used(copy'[e]) = Used(risk)'
             /\ pc'[e] = "update" => Used(copy'[e]) + cap'[e] <= MaxExposure
  BY <1>1, <1>3 DEF ExposureKept, HaltToday, PlacesInv, PortfolioType, Used, UpsertRisk
<1> QED
  BY <1>1, <1>2, <1>3, <1>4, ExposureStays

(* So does a resumption.                                                    *)
LEMMA ResumeTodayKeepsExposure ==
    ASSUME PortfolioInv, ExposureInv, NEW o \in Operators, ResumeToday(o)
    PROVE  ExposureInv'
<1> USE AgentsAreApart, NoneIsNoDocument, FreshRiskIs DEF PortfolioInv, Goto, Drop, history
<1> SUFFICES ASSUME "capital" \notin lost' PROVE ExposureKept'
  BY DEF ExposureInv
<1>1. ExposureKept
  BY DEF ExposureInv, ResumeToday, UpsertRisk
<1>2. Handed' = Handed
  BY DEF Handed, ResumeToday, PlacesInv, PortfolioType
<1>3. Used(risk)' = Used(risk)
  <2>1. risk = copy[o] /\ copy[o] \in RiskState
    BY DEF ResumeToday, UpsertRisk, Undoes, CopyInv
  <2>2. risk' = [copy[o] EXCEPT !.halted = FALSE]
    BY DEF ResumeToday, UpsertRisk
  <2>3. risk' \in RiskState /\ risk'.used = copy[o].used
    BY <2>1, <2>2, HaltedIs
  <2> QED
    BY <2>1, <2>3 DEF Used
<1>4. ASSUME NEW e \in Deliveries
      PROVE  /\ pc'[e] \in {"create", "allocate", "update"} => Used(copy'[e]) = Used(risk)'
             /\ pc'[e] = "update" => Used(copy'[e]) + cap'[e] <= MaxExposure
  BY <1>1, <1>3 DEF ExposureKept, ResumeToday, PlacesInv, PortfolioType, Used, UpsertRisk
<1> QED
  BY <1>1, <1>2, <1>3, <1>4, ExposureStays

LEMMA ProcessSignalKeepsExposure ==
    ASSUME PortfolioInv, ExposureInv, NEW d \in Deliveries, ProcessSignal(d)
    PROVE  ExposureInv'
<1> USE AgentsAreApart, NoneIsNoDocument DEF PortfolioInv, history
<1> SUFFICES ASSUME "capital" \notin lost' PROVE ExposureKept'
  BY DEF ExposureInv
<1>1. UNCHANGED <<risk, copy, lost, sent>>
  BY DEF ProcessSignal
<1>2. pc[d] = "allocate" /\ pc'[d] = "update" /\ \A a \in Agents : a # d => pc'[a] = pc[a]
  BY DEF ProcessSignal, Goto, PlacesInv
<1>3. /\ cap' \in [Deliveries -> Nat]
      /\ \A e \in Deliveries : e # d => cap'[e] = cap[e]
      /\ cap'[d] > 0 => copy[d].used + cap'[d] <= MaxExposure
  BY GateAdmits
<1>4. ExposureKept
  BY <1>1 DEF ExposureInv
<1>5. Handed' = Handed
  BY <1>1, <1>2, <1>3 DEF Handed
<1>6. copy[d] \in RiskState
  BY <1>2 DEF CopyInv
<1>7. Used(copy[d]) = copy[d].used /\ copy[d].used \in Nat
  BY <1>6 DEF Used, RiskState
<1>8. Used(copy[d]) + cap'[d] <= MaxExposure
  <2>1. Used(copy[d]) <= MaxExposure /\ cap'[d] \in Nat
    BY <1>2, <1>3, <1>4 DEF ExposureKept
  <2> QED
    BY <1>3, <1>7, <2>1
<1> QED
  BY <1>1, <1>2, <1>3, <1>4, <1>5, <1>8, ExposureStays DEF ExposureKept, Used

(* The capital of an approved signal is booked on top of what was booked.    *)
LEMMA UpdateRiskStateKeepsExposure ==
    ASSUME PortfolioInv, ExposureInv, NEW d \in Deliveries, UpdateRiskState(d)
    PROVE  ExposureInv'
<1> USE AgentsAreApart, NoneIsNoDocument DEF PortfolioInv, history
<1> SUFFICES ASSUME "capital" \notin lost' PROVE ExposureKept'
  BY DEF ExposureInv
<1>1. ExposureKept
  BY DEF ExposureInv, UpdateRiskState, UpsertRisk
<1>2. pc[d] = "update" /\ copy[d] \in RiskState /\ cap[d] \in Nat /\ cap' = cap /\ sent' = sent
  BY DEF UpdateRiskState, CopyInv, PortfolioType
<1>3. /\ pc'[d] = IF cap[d] > 0 THEN "dispatch" ELSE "done"
      /\ \A a \in Agents : a # d => pc'[a] = pc[a]
  BY DEF UpdateRiskState, Goto, PlacesInv
<1>4. Used(copy[d]) = copy[d].used /\ copy[d].used \in Nat
  BY <1>2 DEF Used, RiskState
<1>5. Used(risk') = Used(copy[d]) + cap[d]
  <2>1. risk' = IF cap[d] > 0 THEN Book(copy[d], cap[d]) ELSE copy[d]
    BY DEF UpdateRiskState, UpsertRisk
  <2>2. Book(copy[d], cap[d]) \in RiskState /\ Book(copy[d], cap[d]).used = copy[d].used + cap[d]
    BY <1>2, BookIs
  <2> QED
    BY <1>2, <1>4, <2>1, <2>2 DEF Used
<1>6. SumOf(Handed, Deliveries)' = SumOf(Handed, Deliveries) + cap[d]
  <2>1. sent[d] = 0 /\ Handed[d] = 0 /\ Handed'[d] = cap[d]
    BY <1>2, <1>3 DEF DispatchInv, Handed
  <2>2. \A e \in Deliveries : e # d => Handed'[e] = Handed[e]
    BY <1>2, <1>3 DEF Handed
  <2>3. \A e \in Deliveries : Handed[e] \in Int /\ Handed'[e] \in Int
    BY <1>2, <2>1, <2>2, HandedIs
  <2>4. SumOf(Handed', Deliveries) = SumOf(Handed, Deliveries) - Handed[d] + Handed'[d]
    BY <2>2, <2>3, PortfolioAssumption, SumOfUpdate
  <2>5. SumOf(Handed, Deliveries) \in Int
    BY HandedIs
  <2> QED
    BY <1>2, <2>1, <2>4, <2>5
<1>7. Used(copy[d]) = Used(risk) /\ Used(copy[d]) + cap[d] <= MaxExposure
  BY <1>1, <1>2 DEF ExposureKept
<1>8. SumOf(Handed, Deliveries)' <= Used(risk)' /\ Used(risk)' <= MaxExposure
  <2>1. Used(risk)' = Used(risk')
    BY DEF Used
  <2> QED
    BY <1>1, <1>2, <1>4, <1>5, <1>6, <1>7, <2>1, HandedIs DEF ExposureKept
<1>9. \A e \in Deliveries : pc'[e] \notin {"create", "allocate", "update"}
  BY <1>2, <1>3 DEF CopyInv
<1> QED
  BY <1>8, <1>9 DEF ExposureKept

(* Capital booked by a delivery that a restart ends is not handed out.       *)
LEMMA RestartKeepsExposure ==
    ASSUME PortfolioInv, ExposureInv, Restart
    PROVE  ExposureInv'
<1> SUFFICES ASSUME "capital" \notin lost' PROVE ExposureKept'
  BY DEF ExposureInv
<1>1. ExposureKept /\ risk' = risk /\ sent' = sent
  BY DEF ExposureInv, Restart, history
<1>2. \A d \in Deliveries : pc'[d] \in {"done", "idle"}
  BY AgentsAreApart DEF Restart
<1>3. \A d \in Deliveries : Handed'[d] \in Int /\ Handed[d] \in Int /\ Handed'[d] <= Handed[d]
  <2>1. ASSUME NEW d \in Deliveries PROVE Handed'[d] = sent[d]
    BY <1>1, <1>2, <2>1 DEF Handed
  <2>2. ASSUME NEW d \in Deliveries PROVE Handed[d] = sent[d] \/ sent[d] = 0
    BY DEF Handed, PortfolioInv, DispatchInv
  <2>3. \A d \in Deliveries : Handed[d] \in Nat /\ sent[d] \in Nat
    BY HandedIs DEF PortfolioInv, PortfolioType
  <2> QED
    BY <2>1, <2>2, <2>3
<1>4. SumOf(Handed', Deliveries) <= SumOf(Handed, Deliveries)
  BY <1>3, PortfolioAssumption, SumOfMonotone
<1>5. SumOf(Handed', Deliveries) \in Int /\ SumOf(Handed, Deliveries) \in Int
  BY <1>3, PortfolioAssumption, SumOfInteger
<1>6. SumOf(Handed, Deliveries)' <= Used(risk)
  BY <1>1, <1>4, <1>5, HandedIs DEF ExposureKept
<1> QED
  BY <1>1, <1>2, <1>6 DEF ExposureKept, Used

LEMMA ExposureStep ==
    PortfolioInv /\ ExposureInv /\ [Next]_vars => ExposureInv'
<1> SUFFICES ASSUME PortfolioInv, ExposureInv, [Next]_vars PROVE ExposureInv'
  OBVIOUS
<1>1. CASE PortfolioNext
  BY <1>1, HandleSignalKeepsExposure, PipelineErrorKeepsExposure, ProcessSignalKeepsExposure,
     UpdateRiskStateKeepsExposure, DispatchApprovedKeepsExposure, GetRiskStateKeepsExposure,
     CreateRiskStateKeepsExposure, CallHaltKeepsExposure, HaltTodayKeepsExposure,
     ResumeTodayKeepsExposure DEF PortfolioNext
<1>2. CASE Restart
  BY <1>2, RestartKeepsExposure
<1>3. CASE Next /\ ~PortfolioNext /\ ~Restart
  <2>1. PaperFrame
    BY <1>3, PaperFrames DEF PortfolioInv
  <2> QED
    BY <2>1, FrameKeepsExposure
<1>4. CASE UNCHANGED vars
  <2>1. PaperFrame
    BY <1>4 DEF vars, portfolioVars, history, PaperFrame, PortfolioInv, PlacesInv
  <2> QED
    BY <2>1, FrameKeepsExposure
<1> QED
  BY <1>1, <1>2, <1>3, <1>4 DEF Next

(* Booked capital covers what was handed out, and stays within the limit.    *)
THEOREM ExposureInvariant == Spec => []ExposureInv
<1>1. PortfolioInv /\ ExposureInv /\ [Next]_vars => ExposureInv'
  BY ExposureStep
<1> QED
  BY ExposureInvInit, PortfolioInvariant, <1>1, PTL DEF Spec

(* The capital handed to the trading services on a day stays within the      *)
(* exposure limit, however many signals are delivered, redelivered, fail or  *)
(* are cut off by a restart, unless an operator's write from an outdated     *)
(* copy has undone booked capital.                                           *)
THEOREM ExposureWithinCapTheorem == Spec => []ExposureWithinCap
<1>1. ASSUME PortfolioInv, ExposureInv PROVE ExposureWithinCap
  <2>1. SUFFICES ASSUME "capital" \notin lost PROVE SumOf(sent, Deliveries) <= MaxExposure
    BY DEF ExposureWithinCap, SumOf
  <2>2. \A d \in Deliveries : sent[d] \in Int /\ Handed[d] \in Int /\ sent[d] <= Handed[d]
    <3>1. \A d \in Deliveries : sent[d] \in Nat /\ Handed[d] \in Nat
      BY <1>1, HandedIs DEF PortfolioInv, PortfolioType
    <3>2. \A d \in Deliveries : Handed[d] = sent[d] \/ sent[d] = 0
      BY <1>1 DEF Handed, PortfolioInv, DispatchInv
    <3> QED
      BY <3>1, <3>2
  <2>3. SumOf(sent, Deliveries) <= SumOf(Handed, Deliveries) /\ SumOf(sent, Deliveries) \in Int
    BY <2>2, PortfolioAssumption, SumOfMonotone, SumOfInteger
  <2> QED
    BY <1>1, <2>1, <2>3, HandedIs DEF ExposureInv, ExposureKept
<1> QED
  BY <1>1, PortfolioInvariant, ExposureInvariant, PTL

-----------------------------------------------------------------------------
(* The documents, copies and lock of paper trading                          *)

AccountDoc == [avail : Int, used : Int, realized : Int, daily : Int, unreal : Int,
               losses : Nat, paused : BOOLEAN]
TradeRow == [pos : Pids, pnl : Pnls]

Locked  == {"gate", "debit", "ledger", "balance", "credit"}
Writing == {"gate", "debit", "credit", "pause_w", "resume_w", "reset_w", "refresh_w"}

Known == {p \in Pids : info[p] \in Info}

DocumentsInv ==
    /\ limits \in Limits /\ account \in AccountDoc /\ writes \in Nat
    /\ positions \in [Pids -> {None} \cup Status] /\ book \in [Pids -> {None} \cup Status]
    /\ info \in [Pids -> {None} \cup Info]
    /\ \A p \in Pids : book[p] # None \/ positions[p] # None => p \in Known
    /\ ledger \in Seq(TradeRow) /\ hydrated \in BOOLEAN
    /\ DOMAIN cur = Agents /\ DOMAIN docs = Agents /\ DOMAIN acopy = Agents
    /\ DOMAIN todo = Agents /\ DOMAIN abase = Agents

(* What agent a may work on where it is, and what it may write back.         *)
AgentInv(a) ==
    /\ todo[a] \subseteq Known
    /\ pc[a] \in {"debit", "ledger", "balance", "credit"} => cur[a] \in Known
    /\ pc[a] = "hydrate" => docs[a] \subseteq Known
    /\ pc[a] = "persist" =>
          DOMAIN docs[a] \subseteq Known /\ \A p \in DOMAIN docs[a] : docs[a][p] \in Status
    /\ pc[a] \in Locked => mlock = a
    /\ pc[a] \in {"balance", "credit"} =>
          ledger # <<>> /\ ledger[Len(ledger)].pos = cur[a]
    /\ abase[a] \in Nat
    /\ pc[a] \in Writing =>
          /\ acopy[a] \in AccountDoc /\ abase[a] <= writes
          /\ abase[a] = writes => acopy[a] = account

PaperInv == DocumentsInv /\ \A a \in Agents : AgentInv(a)

(* What a step of agent a leaves to the others.                              *)
AgentFrame(a) ==
    /\ \A b \in Agents : b # a =>
          /\ pc'[b] = pc[b] /\ cur'[b] = cur[b] /\ todo'[b] = todo[b] /\ docs'[b] = docs[b]
          /\ acopy'[b] = acopy[b] /\ abase'[b] = abase[b]
    /\ \A p \in Known : info'[p] = info[p]
    /\ (writes' = writes /\ account' = account) \/ writes' = writes + 1
    /\ mlock' = mlock \/ mlock \in {None, a}
    /\ ledger' = ledger \/ mlock = a
    /\ lost \subseteq lost'

LEMMA FrameKeepsAgents ==
    ASSUME PaperInv, NEW a \in Agents, AgentFrame(a), AgentInv(a)', DocumentsInv'
    PROVE  PaperInv'
<1>1. SUFFICES ASSUME NEW b \in Agents, b # a PROVE AgentInv(b)'
  BY DEF PaperInv
<1>2. AgentInv(b) /\ writes \in Nat
  BY DEF PaperInv, DocumentsInv
<1>3. /\ pc'[b] = pc[b] /\ cur'[b] = cur[b] /\ todo'[b] = todo[b] /\ docs'[b] = docs[b]
      /\ acopy'[b] = acopy[b] /\ abase'[b] = abase[b]
  BY <1>1 DEF AgentFrame
<1>4. Known \subseteq Known'
  BY DEF AgentFrame, Known
<1>5. pc[b] \in Locked => mlock' = b
  BY <1>1, <1>2, NoneIsNoDocument DEF AgentInv, AgentFrame
<1>6. pc[b] \in Locked => ledger' = ledger
  BY <1>1, <1>2 DEF AgentInv, AgentFrame
<1>7. abase[b] \in Nat /\ abase[b] <= writes /\ (abase[b] = writes => acopy[b] = account)
         => abase[b] <= writes' /\ (abase[b] = writes' => acopy[b] = account')
  BY <1>2 DEF AgentFrame
<1> QED
  BY <1>2, <1>3, <1>4, <1>5, <1>6, <1>7 DEF AgentInv, Locked

LEMMA PaperInvInit == Init => PaperInv
<1> SUFFICES ASSUME Init PROVE PaperInv
  OBVIOUS
<1>1. FreshAccount \in AccountDoc
  BY PaperAssumption DEF FreshAccount, AccountDoc
<1>2. DocumentsInv
  <2>1. ledger \in Seq(TradeRow)
    BY DEF Init
  <2> QED
    BY <1>1, <2>1 DEF Init, DocumentsInv
<1>3. \A a \in Agents : AgentInv(a)
  BY DEF Init, AgentInv, Locked, Writing
<1> QED
  BY <1>2, <1>3 DEF PaperInv

(* A portfolio step is a step of one task that touches nothing here.         *)
LEMMA PortfolioLeavesPaper ==
    ASSUME PlacesInv, PaperInv, NEW t \in Tasks, NEW m, Goto(t, m), UNCHANGED paperVars,
           m \notin Locked \cup Writing \cup {"hydrate", "persist"}, lost \subseteq lost',
           UNCHANGED limits
    PROVE  PaperInv' /\ AgentFrame(t)
<1> USE AgentsAreApart
<1>1. /\ pc'[t] = m
      /\ \A b \in Agents : b # t => pc'[b] = pc[b]
  BY MoveIs
<1>2. AgentFrame(t)
  BY <1>1 DEF AgentFrame, paperVars, acctVars
<1>3. DocumentsInv'
  BY DEF PaperInv, DocumentsInv, Known, paperVars, acctVars
<1>4. AgentInv(t)'
  BY <1>1 DEF PaperInv, AgentInv, Known, paperVars, acctVars, Locked, Writing
<1> QED
  BY <1>2, <1>3, <1>4, FrameKeepsAgents

LEMMA ApplyEntryIs ==
    ASSUME NEW acc \in AccountDoc, NEW c \in Int
    PROVE  /\ ApplyEntry(acc, c) \in AccountDoc /\ ApplyEntry(acc, c).losses = acc.losses
           /\ ApplyEntry(acc, c).avail = acc.avail - c /\ ApplyEntry(acc, c).used = acc.used + c
           /\ ApplyEntry(acc, c).realized = acc.realized
<1>1. acc.avail - c \in Int /\ acc.used + c \in Int
  BY DEF AccountDoc
<1>2. ApplyEntry(acc, c) = [acc EXCEPT !.avail = acc.avail - c, !.used = acc.used + c]
  BY DEF ApplyEntry, AccountDoc
<1> QED
  BY <1>1, <1>2 DEF AccountDoc

LEMMA ApplyRealizedIs ==
    ASSUME NEW acc \in AccountDoc, NEW c \in Int, NEW x \in Int
    PROVE  /\ ApplyRealized(acc, c, x) \in AccountDoc
           /\ ApplyRealized(acc, c, x).losses = (IF x > 0 THEN 0 ELSE acc.losses + 1)
           /\ ApplyRealized(acc, c, x).avail = acc.avail + c + x
           /\ acc.used >= c => ApplyRealized(acc, c, x).used = acc.used - c
           /\ ApplyRealized(acc, c, x).realized = acc.realized + x
<1> DEFINE u == Max({0, acc.used - c})
           n == IF x > 0 THEN 0 ELSE acc.losses + 1
<1>1. acc.avail \in Int /\ acc.used \in Int /\ acc.realized \in Int /\ acc.daily \in Int /\ acc.losses \in Nat
  BY DEF AccountDoc
<1>2. acc.used - c \in Int /\ u = IF 0 >= acc.used - c THEN 0 ELSE acc.used - c
  BY <1>1, MaxOfTwo
<1>3. u \in Int /\ (acc.used >= c => u = acc.used - c)
  BY <1>1, <1>2
<1>4. n \in Nat
  BY <1>1
<1>5. acc.avail + c + x \in Int /\ acc.realized + x \in Int /\ acc.daily + x \in Int
  BY <1>1
<1>6. ApplyRealized(acc, c, x) =
        [acc EXCEPT !.avail = acc.avail + c + x, !.used = u, !.realized = acc.realized + x,
                    !.daily = acc.daily + x, !.losses = n]
  BY DEF ApplyRealized, AccountDoc
<1> HIDE DEF u, n
<1>7. /\ ApplyRealized(acc, c, x) \in AccountDoc /\ ApplyRealized(acc, c, x).losses = n
      /\ ApplyRealized(acc, c, x).avail = acc.avail + c + x /\ ApplyRealized(acc, c, x).used = u
      /\ ApplyRealized(acc, c, x).realized = acc.realized + x
  BY <1>3, <1>4, <1>5, <1>6 DEF AccountDoc
<1> QED
  BY <1>3, <1>7 DEF n

LEMMA PausedIs ==
    ASSUME NEW acc \in AccountDoc, NEW b \in BOOLEAN, NEW new, new = [acc EXCEPT !.paused = b]
    PROVE  /\ new \in AccountDoc /\ new.losses = acc.losses /\ new.avail = acc.avail
           /\ new.used = acc.used /\ new.realized = acc.realized
BY DEF AccountDoc

LEMMA PauseIs ==
    ASSUME NEW acc \in AccountDoc, NEW new, new \in {Pause(acc), Resume(acc)}
    PROVE  /\ new \in AccountDoc /\ new.losses = acc.losses /\ new.avail = acc.avail
           /\ new.used = acc.used /\ new.realized = acc.realized
<1>1. PICK b \in BOOLEAN : new = [acc EXCEPT !.paused = b]
  BY Zenon DEF Pause, Resume
<1>2. b \in BOOLEAN
  BY <1>1
<1> QED
  BY <1>1, <1>2, PausedIs

LEMMA RefreshIs ==
    ASSUME NEW acc \in AccountDoc, NEW x \in Int
    PROVE  /\ RefreshUnrealized(acc, x) \in AccountDoc
           /\ RefreshUnrealized(acc, x).losses = acc.losses
           /\ RefreshUnrealized(acc, x).avail = acc.avail
           /\ RefreshUnrealized(acc, x).used = acc.used
           /\ RefreshUnrealized(acc, x).realized = acc.realized
BY DEF AccountDoc, RefreshUnrealized

LEMMA ResetIs ==
    ASSUME NEW acc \in AccountDoc
    PROVE  /\ ResetDailyState(acc) \in AccountDoc /\ ResetDailyState(acc).avail = acc.avail
           /\ ResetDailyState(acc).losses = 0 /\ ResetDailyState(acc).used = acc.used
           /\ ResetDailyState(acc).realized = acc.realized
<1>1. PICK i \in Int, n \in Nat : i = 0 /\ n = 0
  OBVIOUS
<1>2. i \in Int /\ n \in Nat
  BY <1>1
<1> DEFINE r == [acc EXCEPT !.daily = i, !.unreal = i, !.losses = n]
<1>3. PICK b \in BOOLEAN : ResetDailyState(acc) = [r EXCEPT !.paused = b]
  BY <1>1, Zenon DEF ResetDailyState
<1>4. b \in BOOLEAN
  BY <1>3
<1>5. r = [acc EXCEPT !.daily = i, !.unreal = i, !.losses = n]
  OBVIOUS
<1> HIDE DEF r
<1>6. /\ r \in AccountDoc /\ r.avail = acc.avail /\ r.losses = n /\ r.used = acc.used
      /\ r.realized = acc.realized
  BY <1>2, <1>5 DEF AccountDoc
<1>7. /\ ResetDailyState(acc) \in AccountDoc /\ ResetDailyState(acc).losses = r.losses
      /\ ResetDailyState(acc).avail = r.avail /\ ResetDailyState(acc).used = r.used
      /\ ResetDailyState(acc).realized = r.realized
  BY <1>3, <1>4, <1>6, PausedIs
<1> QED
  BY <1>1, <1>6, <1>7

(* A simulated fill costs a whole amount.                                    *)
LEMMA FillIs ==
    ASSUME NEW acc \in AccountDoc, NEW c \in Nat
    PROVE  SimulateFill(EffectiveCapital(acc, c)) \in Int
<1>1. acc.avail \in Int /\ CapitalPerTrade \in Int /\ EntryPrice \in Nat \ {0}
  <2>1. acc.avail \in Int
    BY DEF AccountDoc
  <2>2. CapitalPerTrade \in Nat /\ EntryPrice \in Nat /\ EntryPrice > 0
    BY PaperAssumption
  <2> QED
    BY <2>1, <2>2
<1>2. EffectiveCapital(acc, c) \in Int
  <2>1. c \in Int
    OBVIOUS
  <2>2. Min({acc.avail, c}) \in {acc.avail, c}
    BY <1>1, <2>1, MinOfTwo, Zenon
  <2> QED
    BY <1>1, <2>1, <2>2 DEF EffectiveCapital
<1> DEFINE b == Min({CapitalPerTrade, EffectiveCapital(acc, c)})
<1>3. b \in Int
  BY <1>1, <1>2, MinOfTwo
<1> HIDE DEF b
<1>4. b \div EntryPrice \in Int
  BY <1>1, <1>3
<1>5. Max({1, b \div EntryPrice}) \in Int
  BY <1>4, MaxOfTwo
<1>6. SizeQuantity(b) \in Int
  BY <1>5 DEF SizeQuantity
<1> QED
  BY <1>1, <1>6 DEF SimulateFill, b

LEMMA FreshIs ==
    /\ FreshAccount \in AccountDoc /\ FreshAccount.used = 0 /\ FreshAccount.realized = 0
    /\ FreshAccount.avail = StartingCapital /\ FreshAccount.losses = 0
BY PaperAssumption DEF FreshAccount, AccountDoc

(* The trade a closing task has just written is the last row.                *)
LEMMA OwnTradeIs ==
    ASSUME PaperInv, NEW a \in Agents, pc[a] \in {"balance", "credit"}
    PROVE  OwnTrade(a) = ledger[Len(ledger)] /\ OwnTrade(a) \in TradeRow
<1>1. ledger \in Seq(TradeRow) /\ ledger # <<>> /\ ledger[Len(ledger)].pos = cur[a]
  BY DEF PaperInv, DocumentsInv, AgentInv
<1> DEFINE n == Len(ledger)
           S == {i \in DOMAIN ledger : ledger[i].pos = cur[a]}
<1>2. n \in Nat \ {0} /\ DOMAIN ledger = 1..n /\ ledger[n] \in TradeRow
  BY <1>1
<1>3. n \in S /\ \A i \in S : i \in Int /\ n >= i
  BY <1>1, <1>2
<1>4. \A x \in S : (\A y \in S : x >= y) => x = n
  BY <1>2, <1>3
<1>5. Max(S) = n
  <2> HIDE DEF S, n
  <2> QED
    BY <1>3, <1>4 DEF Max
<1> QED
  BY <1>2, <1>5 DEF OwnTrade

(* A delivery at the gate opens position p, or none.                         *)
Opened(d, p) ==
    /\ info[p] = None /\ info' = [info EXCEPT ![p] = info'[p]] /\ info'[p] \in Info
    /\ positions' = [positions EXCEPT ![p] = "OPEN"]
    /\ book' = [book EXCEPT ![p] = "OPEN"]
    /\ cur' = [cur EXCEPT ![d] = p]
    /\ pc' = [pc EXCEPT ![d] = "debit"]
    /\ EvaluatePaper(acopy[d], sig[d].sym)
    /\ cold' = (cold \/ Streak >= limits.losses)
    /\ UNCHANGED <<mlock, acopy, abase>>
TurnedAway(d) ==
    /\ pc' = [pc EXCEPT ![d] = "done"]
    /\ mlock' = None
    /\ acopy' = [acopy EXCEPT ![d] = None]
    /\ abase' = [abase EXCEPT ![d] = 0]
    /\ UNCHANGED <<info, positions, book, cur, cold>>

LEMMA OpenPositionIs ==
    ASSUME PlacesInv, PortfolioType, PaperInv, NEW d \in Deliveries, OpenPosition(d)
    PROVE  /\ (\E p \in Pids : Opened(d, p)) \/ TurnedAway(d)
           /\ UNCHANGED <<lost, account, writes, ledger, hydrated, todo, docs, mark>>
           /\ pc[d] = "gate" /\ mlock = d
<1> USE AgentsAreApart
<1> DEFINE cost == SimulateFill(EffectiveCapital(acopy[d], cap[d]))
<1>1. acopy[d] \in AccountDoc /\ pc[d] = "gate" /\ mlock = d
  BY DEF OpenPosition, PaperInv, AgentInv, Writing, Locked
<1>2. cap[d] \in Nat /\ sig[d].sym \in Symbols
  <2>1. sig[d] \in Signals
    BY <1>1 DEF PortfolioType
  <2> QED
    BY <2>1 DEF PortfolioType, Signals
<1>3. cost \in Int
  BY <1>1, <1>2, FillIs
<1>4. CASE EvaluatePaper(acopy[d], sig[d].sym) /\ cost > 0
  <2>1. PICK p \in Pids : /\ info[p] = None
                          /\ info' = [info EXCEPT ![p] = [sym |-> sig[d].sym, cost |-> cost]]
                          /\ positions' = [positions EXCEPT ![p] = "OPEN"]
                          /\ AddPosition(p)
                          /\ cur' = [cur EXCEPT ![d] = p]
    BY <1>4 DEF OpenPosition
  <2> HIDE DEF cost
  <2>2. cost \in Nat
    BY <1>3, <1>4
  <2>3. p \in Pids /\ [sym |-> sig[d].sym, cost |-> cost] \in Info
    BY <1>2, <2>1, <2>2 DEF Info
  <2>4. info' = [info EXCEPT ![p] = info'[p]] /\ info'[p] \in Info
    BY <2>1, <2>3 DEF PaperInv, DocumentsInv
  <2>5. /\ cold' = (cold \/ Streak >= limits.losses)
        /\ Goto(d, "debit")
        /\ UNCHANGED <<mlock, acopy, abase>>
    BY <1>4 DEF OpenPosition, cost
  <2>6. Opened(d, p)
    BY <1>4, <2>1, <2>4, <2>5 DEF Opened, Goto, AddPosition
  <2> QED
    BY <1>1, <2>3, <2>6 DEF OpenPosition, acctVars, portfolioVars
<1>5. CASE ~(EvaluatePaper(acopy[d], sig[d].sym) /\ cost > 0)
  <2>1. TurnedAway(d)
    BY <1>5 DEF OpenPosition, TurnedAway, Goto
  <2> QED
    BY <1>1, <2>1 DEF OpenPosition, acctVars, portfolioVars
<1> QED
  BY <1>4, <1>5

-----------------------------------------------------------------------------
(* One lemma per step                                                       *)

(* The positions found open are known ones.                                  *)
LEMMA EnsureReadyKeepsPaper ==
    ASSUME PlacesInv, PortfolioType, PaperInv, NEW a \in Deliveries \cup Candles, EnsureReady(a), limits' = limits
    PROVE  PaperInv' /\ AgentFrame(a)
<1> USE AgentsAreApart, NoneIsNoDocument DEF PaperInv
<1>1. AgentFrame(a)
  BY DEF EnsureReady, AgentFrame, AgentInv, DocumentsInv, PlacesInv, Goto, acctVars, portfolioVars, Known, Handler
<1>2. DocumentsInv'
  BY DEF EnsureReady, DocumentsInv, PlacesInv, Known, acctVars, portfolioVars, Handler
<1>3. AgentInv(a)'
  <2>1. GetOpenPositions \subseteq Known
    BY DEF DocumentsInv, GetOpenPositions, Status
  <2> HIDE DEF Known
  <2> USE DEF DocumentsInv
  <2>2. pc'[a] \in {"open", "mark", "hydrate"} /\ docs'[a] \in {docs[a], GetOpenPositions}
        /\ (pc'[a] = "hydrate" => docs'[a] = GetOpenPositions)
    BY DEF EnsureReady, Handler, Goto, PlacesInv, DocumentsInv
  <2>3. UNCHANGED <<todo, abase, info>>
    BY DEF EnsureReady
  <2>4. Known' = Known
    BY <2>3 DEF Known
  <2> QED
    BY <2>1, <2>2, <2>3, <2>4 DEF AgentInv, Locked, Writing
<1> QED
  BY <1>1, <1>2, <1>3, FrameKeepsAgents

(* A call that could not be prepared is over.                                *)
LEMMA NotReadyKeepsPaper ==
    ASSUME PlacesInv, PortfolioType, PaperInv, NEW a \in Deliveries \cup Candles, NotReady(a), limits' = limits
    PROVE  PaperInv' /\ AgentFrame(a)
<1> USE AgentsAreApart, NoneIsNoDocument DEF PaperInv
<1>1. AgentFrame(a)
  BY DEF NotReady, AgentFrame, AgentInv, DocumentsInv, PlacesInv, Goto, acctVars, portfolioVars, Known, Finish
<1>2. DocumentsInv'
  BY DEF NotReady, DocumentsInv, PlacesInv, Known, acctVars, portfolioVars, Finish
<1>3. AgentInv(a)'
  BY DEF NotReady, AgentInv, DocumentsInv, PlacesInv, Goto, Known, acctVars, portfolioVars, Locked, Writing, Finish
<1> QED
  BY <1>1, <1>2, <1>3, FrameKeepsAgents

(* The book is filled.                                                       *)
LEMMA HydrateKeepsPaper ==
    ASSUME PlacesInv, PortfolioType, PaperInv, NEW a \in Deliveries \cup Candles, Hydrate(a), limits' = limits
    PROVE  PaperInv' /\ AgentFrame(a)
<1> USE AgentsAreApart, NoneIsNoDocument DEF PaperInv
<1>1. AgentFrame(a)
  BY DEF Hydrate, AgentFrame, AgentInv, DocumentsInv, PlacesInv, Goto, acctVars, portfolioVars, Known, Handler, HydrateBook, Status
<1>2. DocumentsInv'
  <2>1. docs[a] \subseteq Known
    BY DEF AgentInv, Hydrate
  <2>2. book' \in [Pids -> {None} \cup Status] /\ \A p \in Pids : book'[p] # None => p \in Known
    BY <2>1 DEF Hydrate, HydrateBook, Status
  <2>3. hydrated' \in BOOLEAN
    BY DEF Hydrate
  <2>4. DOMAIN docs' = Agents /\ DOMAIN cur' = Agents /\ DOMAIN acopy' = Agents
        /\ DOMAIN todo' = Agents /\ DOMAIN abase' = Agents
    BY DEF Hydrate, DocumentsInv
  <2>5. UNCHANGED <<account, writes, positions, info, ledger>>
    BY DEF Hydrate, acctVars
  <2>6. Known' = Known
    BY <2>5 DEF Known
  <2> HIDE DEF Known
  <2> QED
    BY <2>2, <2>3, <2>4, <2>5, <2>6 DEF DocumentsInv
<1>3. AgentInv(a)'
  BY DEF Hydrate, AgentInv, DocumentsInv, PlacesInv, Goto, Known, acctVars, portfolioVars, Locked, Writing, Handler, HydrateBook, Status
<1> QED
  BY <1>1, <1>2, <1>3, FrameKeepsAgents

(* The lock is taken and the account read.                                   *)
LEMMA OpenReadKeepsPaper ==
    ASSUME PlacesInv, PortfolioType, PaperInv, NEW d \in Deliveries, OpenRead(d), limits' = limits
    PROVE  PaperInv' /\ AgentFrame(d)
<1> USE AgentsAreApart, NoneIsNoDocument DEF PaperInv
<1>1. AgentFrame(d)
  BY DEF OpenRead, AgentFrame, AgentInv, DocumentsInv, PlacesInv, Goto, acctVars, portfolioVars, Known, ReadAccountRow
<1>2. DocumentsInv'
  BY DEF OpenRead, DocumentsInv, PlacesInv, Known, acctVars, portfolioVars, ReadAccountRow
<1>3. AgentInv(d)'
  BY DEF OpenRead, AgentInv, DocumentsInv, PlacesInv, Goto, Known, acctVars, portfolioVars, Locked, Writing, ReadAccountRow
<1> QED
  BY <1>1, <1>2, <1>3, FrameKeepsAgents

(* A new position, or none.                                                  *)
LEMMA OpenPositionKeepsPaper ==
    ASSUME PlacesInv, PortfolioType, PaperInv, NEW d \in Deliveries, OpenPosition(d), limits' = limits
    PROVE  PaperInv' /\ AgentFrame(d)
<1> USE AgentsAreApart, NoneIsNoDocument DEF PaperInv
<1>1. /\ UNCHANGED <<lost, account, writes, ledger, hydrated, todo, docs, mark>>
      /\ pc[d] = "gate" /\ mlock = d
  BY OpenPositionIs
<1>2. CASE \E p \in Pids : Opened(d, p)
  <2>1. PICK p \in Pids : Opened(d, p)
    BY <1>2
  <2>2. p \in Pids /\ info[p] = None
    BY <2>1 DEF Opened
  <2>3. info' \in [Pids -> {None} \cup Info] /\ p \in Known' /\ Known \subseteq Known'
        /\ \A q \in Known : info'[q] = info[q]
    BY <2>1, <2>2 DEF Opened, DocumentsInv, Known
  <2>4. AgentFrame(d)
    BY <1>1, <2>1, <2>3 DEF Opened, AgentFrame, DocumentsInv, PlacesInv
  <2>5. DocumentsInv'
    BY <1>1, <2>1, <2>2, <2>3 DEF Opened, DocumentsInv, Status
  <2>6. AgentInv(d)'
    BY <1>1, <2>1, <2>2, <2>3 DEF Opened, AgentInv, DocumentsInv, PlacesInv, Locked, Writing
  <2> QED
    BY <2>4, <2>5, <2>6, FrameKeepsAgents
<1>3. CASE TurnedAway(d)
  <2>1. AgentFrame(d)
    BY <1>1, <1>3 DEF TurnedAway, AgentFrame, DocumentsInv, PlacesInv
  <2>2. DocumentsInv'
    BY <1>1, <1>3 DEF TurnedAway, DocumentsInv, Known
  <2>3. AgentInv(d)'
    BY <1>1, <1>3 DEF TurnedAway, AgentInv, DocumentsInv, PlacesInv, Locked, Writing, Known
  <2> QED
    BY <2>1, <2>2, <2>3, FrameKeepsAgents
<1> QED
  BY <1>2, <1>3, OpenPositionIs

(* Its capital is reserved.                                                  *)
LEMMA DebitAccountKeepsPaper ==
    ASSUME PlacesInv, PortfolioType, PaperInv, NEW d \in Deliveries, DebitAccount(d), limits' = limits
    PROVE  PaperInv' /\ AgentFrame(d)
<1> USE AgentsAreApart, NoneIsNoDocument DEF PaperInv
<1>1. AgentFrame(d)
  BY DEF DebitAccount, AgentFrame, AgentInv, DocumentsInv, PlacesInv, Goto, acctVars, portfolioVars, Known, WriteAccountRow, Locked
<1>2. DocumentsInv'
  <2>1. acopy[d] \in AccountDoc /\ CostOf(cur[d]) \in Int
    BY DEF DebitAccount, AgentInv, Writing, Known, Info, CostOf
  <2>2. account' \in AccountDoc
    BY <2>1, ApplyEntryIs DEF DebitAccount, WriteAccountRow
  <2> QED
    BY <2>2 DEF DebitAccount, DocumentsInv, Known, WriteAccountRow
<1>3. AgentInv(d)'
  BY DEF DebitAccount, AgentInv, DocumentsInv, PlacesInv, Goto, Known, acctVars, portfolioVars, Locked, Writing, WriteAccountRow, Locked
<1> QED
  BY <1>1, <1>2, <1>3, FrameKeepsAgents

(* The opening fails.                                                        *)
LEMMA OpenErrorKeepsPaper ==
    ASSUME PlacesInv, PortfolioType, PaperInv, NEW d \in Deliveries, OpenError(d), limits' = limits
    PROVE  PaperInv' /\ AgentFrame(d)
<1> USE AgentsAreApart, NoneIsNoDocument DEF PaperInv
<1>1. AgentFrame(d)
  BY DEF OpenError, AgentFrame, AgentInv, DocumentsInv, PlacesInv, Goto, acctVars, portfolioVars, Known, Locked
<1>2. DocumentsInv'
  BY DEF OpenError, DocumentsInv, PlacesInv, Known, acctVars, portfolioVars, Locked
<1>3. AgentInv(d)'
  BY DEF OpenError, AgentInv, DocumentsInv, PlacesInv, Goto, Known, acctVars, portfolioVars, Locked, Writing, Locked
<1> QED
  BY <1>1, <1>2, <1>3, FrameKeepsAgents

(* A candle arrives.                                                         *)
LEMMA HandleCandleKeepsPaper ==
    ASSUME PlacesInv, PortfolioType, PaperInv, NEW c \in Candles, NEW s \in Symbols, HandleCandle(c, s), limits' = limits
    PROVE  PaperInv' /\ AgentFrame(c)
<1> USE AgentsAreApart, NoneIsNoDocument DEF PaperInv
<1>1. AgentFrame(c)
  BY DEF HandleCandle, AgentFrame, AgentInv, DocumentsInv, PlacesInv, Goto, acctVars, portfolioVars, Known
<1>2. DocumentsInv'
  BY DEF HandleCandle, DocumentsInv, PlacesInv, Known, acctVars, portfolioVars
<1>3. AgentInv(c)'
  BY DEF HandleCandle, AgentInv, DocumentsInv, PlacesInv, Goto, Known, acctVars, portfolioVars, Locked, Writing
<1> QED
  BY <1>1, <1>2, <1>3, FrameKeepsAgents

(* The positions of its symbol are marked.                                   *)
LEMMA OnCandleKeepsPaper ==
    ASSUME PlacesInv, PortfolioType, PaperInv, NEW c \in Candles, OnCandle(c), limits' = limits
    PROVE  PaperInv' /\ AgentFrame(c)
<1> USE AgentsAreApart, NoneIsNoDocument DEF PaperInv
<1>1. AgentFrame(c)
  BY DEF OnCandle, AgentFrame, AgentInv, DocumentsInv, PlacesInv, Goto, acctVars, portfolioVars, Known, OpenForSymbol
<1>2. DocumentsInv'
  BY DEF OnCandle, DocumentsInv, PlacesInv, Known, acctVars, portfolioVars, OpenForSymbol
<1>3. AgentInv(c)'
  BY DEF OnCandle, AgentInv, DocumentsInv, PlacesInv, Goto, Known, acctVars, portfolioVars, Locked, Writing, OpenForSymbol
<1> QED
  BY <1>1, <1>2, <1>3, FrameKeepsAgents

(* Their documents are written.                                              *)
LEMMA PersistPriceUpdatesKeepsPaper ==
    ASSUME PlacesInv, PortfolioType, PaperInv, NEW c \in Candles, PersistPriceUpdates(c), limits' = limits
    PROVE  PaperInv' /\ AgentFrame(c)
<1> USE AgentsAreApart, NoneIsNoDocument DEF PaperInv
<1>1. AgentFrame(c)
  BY DEF PersistPriceUpdates, AgentFrame, AgentInv, DocumentsInv, PlacesInv, Goto, acctVars, portfolioVars, Known, Status
<1>2. DocumentsInv'
  <2>1. positions' \in [Pids -> {None} \cup Status]
        /\ \A p \in Pids : positions'[p] # None => positions[p] # None \/ p \in DOMAIN docs[c]
    <3>1. CASE UNCHANGED positions
      BY <3>1 DEF DocumentsInv
    <3>2. CASE positions' = [p \in Pids |-> IF p \in DOMAIN docs[c] THEN docs[c][p] ELSE positions[p]]
      BY <3>2 DEF DocumentsInv, AgentInv, PersistPriceUpdates
    <3> QED
      BY <3>1, <3>2 DEF PersistPriceUpdates
  <2>2. DOMAIN docs[c] \subseteq Known
    BY DEF AgentInv, PersistPriceUpdates
  <2>3. UNCHANGED <<account, writes, info, ledger, book, hydrated>>
    BY DEF PersistPriceUpdates, acctVars
  <2>4. DOMAIN docs' = Agents /\ DOMAIN cur' = Agents /\ DOMAIN acopy' = Agents
        /\ DOMAIN todo' = Agents /\ DOMAIN abase' = Agents
    BY DEF PersistPriceUpdates, DocumentsInv
  <2>5. Known' = Known
    BY <2>3 DEF Known
  <2> HIDE DEF Known
  <2> QED
    BY <2>1, <2>2, <2>3, <2>4, <2>5 DEF DocumentsInv
<1>3. AgentInv(c)'
  BY DEF PersistPriceUpdates, AgentInv, DocumentsInv, PlacesInv, Goto, Known, acctVars, portfolioVars, Locked, Writing, Status
<1> QED
  BY <1>1, <1>2, <1>3, FrameKeepsAgents

(* Nothing is left to close.                                                 *)
LEMMA AllClosedKeepsPaper ==
    ASSUME PlacesInv, PortfolioType, PaperInv, NEW a \in Candles \cup Operators, AllClosed(a), limits' = limits
    PROVE  PaperInv' /\ AgentFrame(a)
<1> USE AgentsAreApart, NoneIsNoDocument DEF PaperInv
<1>1. AgentFrame(a)
  BY DEF AllClosed, AgentFrame, AgentInv, DocumentsInv, PlacesInv, Goto, acctVars, portfolioVars, Known, paperVars
<1>2. DocumentsInv'
  BY DEF AllClosed, DocumentsInv, PlacesInv, Known, acctVars, portfolioVars, paperVars
<1>3. AgentInv(a)'
  BY DEF AllClosed, AgentInv, DocumentsInv, PlacesInv, Goto, Known, acctVars, portfolioVars, Locked, Writing, paperVars
<1> QED
  BY <1>1, <1>2, <1>3, FrameKeepsAgents

(* A position is closed.                                                     *)
LEMMA ClosePositionKeepsPaper ==
    ASSUME PlacesInv, PortfolioType, PaperInv, NEW a \in Candles \cup Operators, ClosePosition(a), limits' = limits
    PROVE  PaperInv' /\ AgentFrame(a)
<1> USE AgentsAreApart, NoneIsNoDocument DEF PaperInv
<1>1. AgentFrame(a)
  BY DEF ClosePosition, AgentFrame, AgentInv, DocumentsInv, PlacesInv, Goto, acctVars, portfolioVars, Known, Status, Locked
<1>2. DocumentsInv'
  <2>1. PICK p \in todo[a] :
           /\ book' = [book EXCEPT ![p] = IF @ = None THEN None ELSE "CLOSED"]
           /\ positions' = [positions EXCEPT ![p] = "CLOSED"]
    BY DEF ClosePosition
  <2>2. p \in Known /\ p \in todo[a]
    BY <2>1 DEF AgentInv
  <2>3. UNCHANGED <<account, writes, info, ledger, hydrated>>
    BY DEF ClosePosition, acctVars
  <2>4. DOMAIN docs' = Agents /\ DOMAIN cur' = Agents /\ DOMAIN acopy' = Agents
        /\ DOMAIN todo' = Agents /\ DOMAIN abase' = Agents
    BY DEF ClosePosition, DocumentsInv
  <2>5. Known' = Known
    BY <2>3 DEF Known
  <2>6. positions' \in [Pids -> {None} \cup Status] /\ book' \in [Pids -> {None} \cup Status]
    BY <2>1, <2>2 DEF DocumentsInv, Status, Known
  <2>7. \A q \in Pids : book'[q] # None \/ positions'[q] # None => q \in Known
    BY <2>1, <2>2 DEF DocumentsInv, Known
  <2> HIDE DEF Known
  <2> QED
    BY <2>3, <2>4, <2>5, <2>6, <2>7 DEF DocumentsInv
<1>3. AgentInv(a)'
  BY DEF ClosePosition, AgentInv, DocumentsInv, PlacesInv, Goto, Known, acctVars, portfolioVars, Locked, Writing, Status, Locked
<1> QED
  BY <1>1, <1>2, <1>3, FrameKeepsAgents

(* Its row is added.                                                         *)
LEMMA InsertTradeKeepsPaper ==
    ASSUME PlacesInv, PortfolioType, PaperInv, NEW a \in Candles \cup Operators, InsertTrade(a), limits' = limits
    PROVE  PaperInv' /\ AgentFrame(a)
<1> USE AgentsAreApart, NoneIsNoDocument DEF PaperInv
<1>1. AgentFrame(a)
  BY DEF InsertTrade, AgentFrame, AgentInv, DocumentsInv, PlacesInv, Goto, acctVars, portfolioVars, Known, Trade, TradeRow, Locked
<1>2. DocumentsInv'
  <2>1. PICK x \in Pnls : ledger' = Append(ledger, Trade(cur[a], x))
    BY DEF InsertTrade
  <2>2. x \in Pnls /\ cur[a] \in Pids
    BY <2>1 DEF AgentInv, InsertTrade, Known
  <2>3. Trade(cur[a], x) \in TradeRow
    BY <2>2 DEF Trade, TradeRow
  <2>4. ledger' \in Seq(TradeRow)
    BY <2>1, <2>3 DEF DocumentsInv
  <2> QED
    BY <2>4 DEF InsertTrade, DocumentsInv, Known, acctVars
<1>3. AgentInv(a)'
  <2>1. PICK x \in Pnls : ledger' = Append(ledger, Trade(cur[a], x))
    BY DEF InsertTrade
  <2>2. ledger' # <<>> /\ ledger'[Len(ledger')].pos = cur[a]
    BY <2>1 DEF DocumentsInv, Trade
  <2> QED
    BY <2>2 DEF InsertTrade, AgentInv, DocumentsInv, PlacesInv, Goto, Known, Locked, Writing
<1> QED
  BY <1>1, <1>2, <1>3, FrameKeepsAgents

(* The account is read.                                                      *)
LEMMA ReadBalanceKeepsPaper ==
    ASSUME PlacesInv, PortfolioType, PaperInv, NEW a \in Candles \cup Operators, ReadBalance(a), limits' = limits
    PROVE  PaperInv' /\ AgentFrame(a)
<1> USE AgentsAreApart, NoneIsNoDocument DEF PaperInv
<1>1. AgentFrame(a)
  BY DEF ReadBalance, AgentFrame, AgentInv, DocumentsInv, PlacesInv, Goto, acctVars, portfolioVars, Known, ReadAccountRow
<1>2. DocumentsInv'
  BY DEF ReadBalance, DocumentsInv, PlacesInv, Known, acctVars, portfolioVars, ReadAccountRow
<1>3. AgentInv(a)'
  BY DEF ReadBalance, AgentInv, DocumentsInv, PlacesInv, Goto, Known, acctVars, portfolioVars, Locked, Writing, ReadAccountRow
<1> QED
  BY <1>1, <1>2, <1>3, FrameKeepsAgents

(* The trade is credited.                                                    *)
LEMMA CreditAccountKeepsPaper ==
    ASSUME PlacesInv, PortfolioType, PaperInv, NEW a \in Candles \cup Operators, CreditAccount(a), limits' = limits
    PROVE  PaperInv' /\ AgentFrame(a)
<1> USE AgentsAreApart, NoneIsNoDocument DEF PaperInv
<1>1. AgentFrame(a)
  BY DEF CreditAccount, AgentFrame, AgentInv, DocumentsInv, PlacesInv, Goto, acctVars, portfolioVars, Known, WriteAccountRow, RemovePosition, Locked
<1>2. DocumentsInv'
  <2>1. acopy[a] \in AccountDoc /\ CostOf(cur[a]) \in Int /\ cur[a] \in Known
    BY DEF CreditAccount, AgentInv, Writing, Known, Info, CostOf
  <2>2. OwnTrade(a).pnl \in Int
    BY OwnTradeIs, PaperAssumption DEF CreditAccount, TradeRow
  <2>3. account' \in AccountDoc /\ writes' = writes + 1
    BY <2>1, <2>2, ApplyRealizedIs DEF CreditAccount, WriteAccountRow
  <2>4. UNCHANGED <<info, ledger, hydrated, positions>> /\ book' = [book EXCEPT ![cur[a]] = None]
    BY DEF CreditAccount, RemovePosition
  <2>5. DOMAIN docs' = Agents /\ DOMAIN cur' = Agents /\ DOMAIN acopy' = Agents
        /\ DOMAIN todo' = Agents /\ DOMAIN abase' = Agents
    BY DEF CreditAccount, DocumentsInv, WriteAccountRow
  <2> QED
    BY <2>1, <2>3, <2>4, <2>5 DEF DocumentsInv, Known
<1>3. AgentInv(a)'
  BY DEF CreditAccount, AgentInv, DocumentsInv, PlacesInv, Goto, Known, acctVars, portfolioVars, Locked, Writing, WriteAccountRow, RemovePosition, Locked
<1> QED
  BY <1>1, <1>2, <1>3, FrameKeepsAgents

(* The close fails.                                                          *)
LEMMA CloseErrorKeepsPaper ==
    ASSUME PlacesInv, PortfolioType, PaperInv, NEW a \in Candles \cup Operators, CloseError(a), limits' = limits
    PROVE  PaperInv' /\ AgentFrame(a)
<1> USE AgentsAreApart, NoneIsNoDocument DEF PaperInv
<1>1. AgentFrame(a)
  BY DEF CloseError, AgentFrame, AgentInv, DocumentsInv, PlacesInv, Goto, acctVars, portfolioVars, Known, Locked
<1>2. DocumentsInv'
  BY DEF CloseError, DocumentsInv, PlacesInv, Known, acctVars, portfolioVars, Locked
<1>3. AgentInv(a)'
  BY DEF CloseError, AgentInv, DocumentsInv, PlacesInv, Goto, Known, acctVars, portfolioVars, Locked, Writing, Locked
<1> QED
  BY <1>1, <1>2, <1>3, FrameKeepsAgents

(* The account is read for a change.                                         *)
LEMMA ReadForChangeKeepsPaper ==
    ASSUME PlacesInv, PortfolioType, PaperInv, NEW a \in Candles \cup Operators, ReadForChange(a), limits' = limits
    PROVE  PaperInv' /\ AgentFrame(a)
<1> USE AgentsAreApart, NoneIsNoDocument DEF PaperInv
<1>1. AgentFrame(a)
  BY DEF ReadForChange, AgentFrame, AgentInv, DocumentsInv, PlacesInv, Goto, acctVars, portfolioVars, Known, ReadAccountRow, Changes, WriteOf
<1>2. DocumentsInv'
  BY DEF ReadForChange, DocumentsInv, PlacesInv, Known, acctVars, portfolioVars, ReadAccountRow, Changes, WriteOf
<1>3. AgentInv(a)'
  BY DEF ReadForChange, AgentInv, DocumentsInv, PlacesInv, Goto, Known, acctVars, portfolioVars, Locked, Writing, ReadAccountRow, Changes, WriteOf
<1> QED
  BY <1>1, <1>2, <1>3, FrameKeepsAgents

(* The change is written.                                                    *)
LEMMA WriteChangeKeepsPaper ==
    ASSUME PlacesInv, PortfolioType, PaperInv, NEW a \in Candles \cup Operators, WriteChange(a), limits' = limits
    PROVE  PaperInv' /\ AgentFrame(a)
<1> USE AgentsAreApart, NoneIsNoDocument DEF PaperInv
<1>1. AgentFrame(a)
  BY DEF WriteChange, AgentFrame, AgentInv, DocumentsInv, PlacesInv, Goto, acctVars, portfolioVars, Known, WriteAccountRow, Changes
<1>2. DocumentsInv'
  <2>1. pc[a] \in Writing
    BY DEF WriteChange, Writing
  <2>2. acopy[a] \in AccountDoc
    BY <2>1 DEF AgentInv
  <2>3. 0 \in Int /\ Pnls \subseteq Int
    BY PaperAssumption
  <2>4. writes' = writes + 1 /\ account' \in AccountDoc
    <3>1. CASE account' \in {Pause(acopy[a]), Resume(acopy[a])}
      BY <2>2, <3>1, PauseIs DEF WriteChange, WriteAccountRow
    <3>2. CASE account' = ResetDailyState(acopy[a])
      BY <2>2, <3>2, ResetIs DEF WriteChange, WriteAccountRow
    <3>3. CASE \E x \in Pnls \cup {0} : account' = RefreshUnrealized(acopy[a], x)
      BY <2>2, <2>3, <3>3, RefreshIs DEF WriteChange, WriteAccountRow
    <3> QED
      BY <3>1, <3>2, <3>3 DEF WriteChange, WriteAccountRow
  <2>5. UNCHANGED <<info, ledger, hydrated, positions, book>>
    BY DEF WriteChange
  <2>6. DOMAIN docs' = Agents /\ DOMAIN cur' = Agents /\ DOMAIN acopy' = Agents
        /\ DOMAIN todo' = Agents /\ DOMAIN abase' = Agents
    <3>1. acopy' = [acopy EXCEPT ![a] = None] /\ abase' = [abase EXCEPT ![a] = 0]
      BY DEF WriteChange, WriteAccountRow
    <3>2. docs' = docs /\ cur' = cur /\ todo' = todo
      BY DEF WriteChange
    <3> QED
      BY <3>1, <3>2 DEF DocumentsInv
  <2> QED
    BY <2>4, <2>5, <2>6 DEF DocumentsInv, Known
<1>3. AgentInv(a)'
  BY DEF WriteChange, AgentInv, DocumentsInv, PlacesInv, Goto, Known, acctVars, portfolioVars, Locked, Writing, WriteAccountRow, Changes
<1> QED
  BY <1>1, <1>2, <1>3, FrameKeepsAgents

(* An operator calls.                                                        *)
LEMMA CallPaperKeepsPaper ==
    ASSUME PlacesInv, PortfolioType, PaperInv, NEW o \in Operators, NEW what, CallPaper(o, what), limits' = limits
    PROVE  PaperInv' /\ AgentFrame(o)
<1> USE AgentsAreApart, NoneIsNoDocument DEF PaperInv
<1>1. AgentFrame(o)
  BY DEF CallPaper, AgentFrame, AgentInv, DocumentsInv, PlacesInv, Goto, acctVars, portfolioVars, Known, Changes
<1>2. DocumentsInv'
  BY DEF CallPaper, DocumentsInv, PlacesInv, Known, acctVars, portfolioVars, Changes
<1>3. AgentInv(o)'
  BY DEF CallPaper, AgentInv, DocumentsInv, PlacesInv, Goto, Known, acctVars, portfolioVars, Locked, Writing, Changes
<1> QED
  BY <1>1, <1>2, <1>3, FrameKeepsAgents

(* Rows and book are dropped.                                                *)
LEMMA WipePositionsKeepsPaper ==
    ASSUME PlacesInv, PortfolioType, PaperInv, NEW o \in Operators, WipePositions(o), limits' = limits
    PROVE  PaperInv' /\ AgentFrame(o)
<1> USE AgentsAreApart, NoneIsNoDocument DEF PaperInv
<1>1. AgentFrame(o)
  BY DEF WipePositions, AgentFrame, AgentInv, DocumentsInv, PlacesInv, Goto, acctVars, portfolioVars, Known, HydrateBook
<1>2. DocumentsInv'
  BY DEF WipePositions, DocumentsInv, PlacesInv, Known, acctVars, portfolioVars, HydrateBook
<1>3. AgentInv(o)'
  BY DEF WipePositions, AgentInv, DocumentsInv, PlacesInv, Goto, Known, acctVars, portfolioVars, Locked, Writing, HydrateBook
<1> QED
  BY <1>1, <1>2, <1>3, FrameKeepsAgents

(* The account starts afresh.                                                *)
LEMMA HardResetKeepsPaper ==
    ASSUME PlacesInv, PortfolioType, PaperInv, NEW o \in Operators, HardReset(o), limits' = limits
    PROVE  PaperInv' /\ AgentFrame(o)
<1> USE AgentsAreApart, NoneIsNoDocument DEF PaperInv
<1>1. AgentFrame(o)
  BY DEF HardReset, AgentFrame, AgentInv, DocumentsInv, PlacesInv, Goto, acctVars, portfolioVars, Known
<1>2. DocumentsInv'
  BY FreshIs DEF HardReset, DocumentsInv, Known
<1>3. AgentInv(o)'
  BY DEF HardReset, AgentInv, DocumentsInv, PlacesInv, Goto, Known, acctVars, portfolioVars, Locked, Writing
<1> QED
  BY <1>1, <1>2, <1>3, FrameKeepsAgents

-----------------------------------------------------------------------------
(* Every step                                                               *)

(* A step of the portfolio layer moves one task between its places.          *)
PortfolioMove(t, m) ==
    /\ Goto(t, m) /\ m \in PortfolioPlaces \cup {"idle", "done", "approved"}
    /\ pc[t] \in PortfolioPlaces \cup {"idle"}
    /\ lost \subseteq lost' /\ lost' \subseteq lost \cup {"capital", "halt"}

LEMMA PortfolioMoves ==
    ASSUME PortfolioNext
    PROVE  \E t \in Tasks, m \in PortfolioPlaces \cup {"idle", "done", "approved"} : PortfolioMove(t, m)
<1> USE AgentsAreApart DEF PortfolioMove, PortfolioPlaces
<1>1. ASSUME NEW d \in Deliveries, NEW s \in Signals, HandleSignal(d, s)
      PROVE  \E m \in {"state", "done"} : PortfolioMove(d, m)
  BY <1>1 DEF HandleSignal
<1>2. ASSUME NEW d \in Deliveries,
             PipelineError(d) \/ ProcessSignal(d) \/ UpdateRiskState(d) \/ DispatchApproved(d)
      PROVE  \E m \in {"done", "update", "dispatch", "approved"} : PortfolioMove(d, m)
  BY <1>2 DEF PipelineError, ProcessSignal, UpdateRiskState, DispatchApproved, UpsertRisk, Undoes
<1>3. ASSUME NEW t \in Tasks, GetRiskState(t) \/ CreateRiskState(t)
      PROVE  \E m \in {"create", "flag", "allocate"} : PortfolioMove(t, m)
  BY <1>3 DEF GetRiskState, CreateRiskState, AfterState, UpsertRisk, Undoes
<1>4. ASSUME NEW o \in Operators, NEW what, CallHalt(o, what) \/ HaltToday(o) \/ ResumeToday(o)
      PROVE  \E m \in {"state", "idle"} : PortfolioMove(o, m)
  BY <1>4 DEF CallHalt, HaltToday, ResumeToday, UpsertRisk, Undoes
<1>5. CASE \E d \in Deliveries : \E s \in Signals : HandleSignal(d, s)
  BY <1>1, <1>5
<1>6. CASE \E d \in Deliveries :
              PipelineError(d) \/ ProcessSignal(d) \/ UpdateRiskState(d) \/ DispatchApproved(d)
  BY <1>2, <1>6
<1>7. CASE \E t \in Tasks : GetRiskState(t) \/ CreateRiskState(t)
  BY <1>3, <1>7
<1>8. CASE \E o \in Operators :
              (\E what \in {"halt", "resume"} : CallHalt(o, what)) \/ HaltToday(o) \/ ResumeToday(o)
  BY <1>4, <1>8
<1> QED
  BY <1>5, <1>6, <1>7, <1>8 DEF PortfolioNext

LEMMA RestartKeepsPaper ==
    ASSUME PlacesInv, PaperInv, Restart, limits' = limits
    PROVE  PaperInv'
<1> USE AgentsAreApart DEF PaperInv
<1>1. DocumentsInv'
  BY DEF Restart, DocumentsInv, HydrateBook, acctVars, Known
<1>2. ASSUME NEW a \in Agents PROVE AgentInv(a)'
  <2>1. pc'[a] \in {"done", "idle"} /\ todo'[a] = {} /\ abase'[a] = 0
    BY DEF Restart
  <2> QED
    BY <2>1 DEF AgentInv, Locked, Writing
<1> QED
  BY <1>1, <1>2

LEMMA StutterKeepsPaper ==
    ASSUME PaperInv, UNCHANGED vars
    PROVE  PaperInv'
BY DEF PaperInv, DocumentsInv, AgentInv, Known, vars, paperVars, acctVars

LEMMA PaperStep ==
    ASSUME PortfolioInv, PaperInv, [Next]_vars
    PROVE  PaperInv'
<1> USE DEF PortfolioInv
<1>1. CASE PortfolioNext /\ UNCHANGED paperVars /\ limits' = limits
  <2>1. PICK t \in Tasks, m \in PortfolioPlaces \cup {"idle", "done", "approved"} : PortfolioMove(t, m)
    BY <1>1, PortfolioMoves
  <2> QED
    BY <1>1, <2>1, PortfolioLeavesPaper DEF PortfolioMove, PortfolioPlaces, Locked, Writing
<1>2. CASE limits' = limits /\ \E a \in Deliveries \cup Candles : EnsureReady(a) \/ NotReady(a) \/ Hydrate(a)
  BY <1>2, EnsureReadyKeepsPaper, NotReadyKeepsPaper, HydrateKeepsPaper
<1>3. CASE limits' = limits /\ \E d \in Deliveries : OpenRead(d) \/ OpenPosition(d) \/ DebitAccount(d) \/ OpenError(d)
  BY <1>3, OpenReadKeepsPaper, OpenPositionKeepsPaper, DebitAccountKeepsPaper, OpenErrorKeepsPaper
<1>4. CASE limits' = limits /\ \E c \in Candles :
              (\E s \in Symbols : HandleCandle(c, s)) \/ OnCandle(c) \/ PersistPriceUpdates(c)
  BY <1>4, HandleCandleKeepsPaper, OnCandleKeepsPaper, PersistPriceUpdatesKeepsPaper
<1>5. CASE limits' = limits /\ \E a \in Candles \cup Operators : CloseStep(a)
  BY <1>5, AllClosedKeepsPaper, ClosePositionKeepsPaper, InsertTradeKeepsPaper,
     ReadBalanceKeepsPaper, CreditAccountKeepsPaper, CloseErrorKeepsPaper,
     ReadForChangeKeepsPaper, WriteChangeKeepsPaper DEF CloseStep
<1>6. CASE limits' = limits /\ \E o \in Operators :
              \/ \E what \in {"pause", "resume", "reset", "close_all", "hard_reset"} : CallPaper(o, what)
              \/ WipePositions(o) \/ HardReset(o)
  BY <1>6, CallPaperKeepsPaper, WipePositionsKeepsPaper, HardResetKeepsPaper
<1>7. CASE Restart /\ limits' = limits
  BY <1>7, RestartKeepsPaper
<1>8. CASE UNCHANGED vars
  BY <1>8, StutterKeepsPaper
<1> QED
  BY <1>1, <1>2, <1>3, <1>4, <1>5, <1>6, <1>7, <1>8 DEF Next, Step, CloseStep

(* Documents, copies and the mutation lock are as described in every         *)
(* reachable state: whoever holds the lock is the only one between the       *)
(* statements it protects, and a copy that is not outdated is the account.   *)
THEOREM PaperInvariant == Spec => []PaperInv
<1>1. PortfolioInv /\ PaperInv /\ [Next]_vars => PaperInv'
  BY PaperStep
<1> QED
  BY PaperInvInit, PortfolioInvariant, <1>1, PTL DEF Spec

-----------------------------------------------------------------------------
(* The book, the documents and the ledger                                   *)

Row(p)      == \E i \in 1..Len(ledger) : ledger[i].pos = p
InFlight(p) == \E a \in Agents : pc[a] = "ledger" /\ cur[a] = p
Sold(p)     == Row(p) \/ InFlight(p)

(* A position once opened is open in the documents and, after the first      *)
(* hydration, in the book, or its ledger row is written or being written.    *)
BookKept ==
    /\ \A p \in Known : positions[p] = "OPEN" \/ Sold(p)
    /\ \A p \in Known : hydrated => book[p] # None \/ Sold(p)
    /\ \A p \in Known : book[p] = "CLOSED" => Sold(p)
    /\ \A a \in Agents : pc[a] = "persist" =>
          \A p \in DOMAIN docs[a] : docs[a][p] = "CLOSED" => Sold(p)
    /\ \A a \in Agents : pc[a] \in {"open", "gate", "debit"} => hydrated
BookInv == lost \cap {"book", "ledger"} = {} => BookKept

(* Rows stay, and a row being written is still being written or is there.    *)
SoldStays == \A p \in Pids : Sold(p) => Sold(p)'

BookFrame ==
    /\ SoldStays /\ lost \subseteq lost'
    /\ UNCHANGED <<positions, book, info, hydrated>>
    /\ \A a \in Agents : pc'[a] = "persist" => pc[a] = "persist" /\ docs'[a] = docs[a]
    /\ \A a \in Agents : pc'[a] \in {"open", "gate", "debit"} =>
          hydrated \/ pc[a] \in {"open", "gate", "debit"}

LEMMA BookFrameKeeps ==
    ASSUME PaperInv, BookInv, BookFrame
    PROVE  BookInv'
<1> SUFFICES ASSUME lost' \cap {"book", "ledger"} = {} PROVE BookKept'
  BY DEF BookInv
<1>1. BookKept
  BY DEF BookInv, BookFrame
<1>2. Known' = Known
  BY DEF BookFrame, Known
<1>3. \A p \in Known : Sold(p) => Sold(p)'
  BY DEF BookFrame, SoldStays, Known
<1>4. \A a \in Agents : pc[a] = "persist" => DOMAIN docs[a] \subseteq Known
  BY DEF PaperInv, AgentInv
<1> HIDE DEF Known, Sold
<1> QED
  BY <1>1, <1>2, <1>3, <1>4 DEF BookFrame, BookKept

LEMMA RowsStay ==
    ASSUME ledger' = ledger, NEW a \in Agents,
           \A b \in Agents : b # a => pc'[b] = pc[b] /\ cur'[b] = cur[b],
           pc[a] # "ledger"
    PROVE  SoldStays
BY DEF SoldStays, Sold, Row, InFlight

LEMMA ReadyKeepsBook ==
    ASSUME PlacesInv, PaperInv, BookInv, NEW a \in Deliveries \cup Candles,
           EnsureReady(a) \/ NotReady(a), AgentFrame(a)
    PROVE  BookInv'
<1> USE AgentsAreApart
<1>1. SoldStays
  BY RowsStay DEF EnsureReady, NotReady, AgentFrame
<1>2. BookFrame
  BY <1>1 DEF EnsureReady, NotReady, AgentFrame, BookFrame, Goto, PlacesInv, Handler, Finish,
     portfolioVars
<1> QED
  BY <1>2, BookFrameKeeps

LEMMA HydrateKeepsBook ==
    ASSUME PlacesInv, PaperInv, BookInv, NEW a \in Deliveries \cup Candles, Hydrate(a), AgentFrame(a)
    PROVE  BookInv'
<1> USE AgentsAreApart, NoneIsNoDocument
<1> SUFFICES ASSUME lost' \cap {"book", "ledger"} = {} PROVE BookKept'
  BY DEF BookInv
<1>1. BookKept
  BY DEF BookInv, AgentFrame
<1>2. SoldStays
  BY RowsStay DEF Hydrate, AgentFrame
<1>3. docs[a] = GetOpenPositions
  BY DEF Hydrate
<1>4. \A p \in Pids : book'[p] = IF positions[p] = "OPEN" THEN "OPEN" ELSE None
  BY <1>3 DEF Hydrate, HydrateBook, GetOpenPositions
<1>5. positions' = positions /\ hydrated' = TRUE /\ Known' = Known /\ Known \subseteq Pids
  BY DEF Hydrate, Known
<1>6. \A b \in Agents : pc'[b] = "persist" => pc[b] = "persist" /\ docs'[b] = docs[b]
  BY DEF Hydrate, AgentFrame, Goto, PlacesInv, Handler
<1>7. \A b \in Agents : pc[b] = "persist" => DOMAIN docs[b] \subseteq Known
  BY DEF PaperInv, AgentInv
<1> HIDE DEF Known, Sold
<1> QED
  BY <1>1, <1>2, <1>4, <1>5, <1>6, <1>7 DEF BookKept, SoldStays, Status

LEMMA OpenKeepsBook ==
    ASSUME PlacesInv, PortfolioType, PaperInv, BookInv, NEW d \in Deliveries,
           OpenRead(d) \/ DebitAccount(d) \/ OpenError(d), AgentFrame(d)
    PROVE  BookInv'
<1> USE AgentsAreApart
<1>1. SoldStays
  BY RowsStay DEF OpenRead, DebitAccount, OpenError, AgentFrame
<1>2. BookFrame
  BY <1>1 DEF OpenRead, DebitAccount, OpenError, AgentFrame, BookFrame, Goto, PlacesInv,
     portfolioVars, WriteAccountRow
<1> QED
  BY <1>2, BookFrameKeeps

LEMMA OpenPositionKeepsBook ==
    ASSUME PlacesInv, PortfolioType, PaperInv, BookInv, NEW d \in Deliveries,
           OpenPosition(d), AgentFrame(d)
    PROVE  BookInv'
<1> USE AgentsAreApart, NoneIsNoDocument
<1>1. /\ UNCHANGED <<lost, account, writes, ledger, hydrated, todo, docs, mark>>
      /\ pc[d] = "gate" /\ mlock = d
  BY OpenPositionIs
<1>2. SoldStays
  BY <1>1, RowsStay DEF AgentFrame
<1>3. CASE TurnedAway(d)
  <2>1. BookFrame
    BY <1>1, <1>2, <1>3 DEF TurnedAway, BookFrame, PlacesInv
  <2> QED
    BY <2>1, BookFrameKeeps
<1>4. CASE \E p \in Pids : Opened(d, p)
  <2> SUFFICES ASSUME lost' \cap {"book", "ledger"} = {} PROVE BookKept'
    BY DEF BookInv
  <2>1. PICK p \in Pids : Opened(d, p)
    BY <1>4
  <2>2. BookKept
    BY <1>1 DEF BookInv
  <2>3. p \in Pids /\ info[p] = None /\ Known' = Known \cup {p}
    BY <2>1 DEF Opened, Known, PaperInv, DocumentsInv
  <2>4. positions'[p] = "OPEN" /\ book'[p] = "OPEN"
        /\ \A q \in Pids : q # p => positions'[q] = positions[q] /\ book'[q] = book[q]
    BY <2>1 DEF Opened, PaperInv, DocumentsInv
  <2>5. \A a \in Agents : pc'[a] = "persist" => pc[a] = "persist" /\ docs'[a] = docs[a]
    BY <1>1, <2>1 DEF Opened, PlacesInv
  <2>6. \A a \in Agents : pc'[a] \in {"open", "gate", "debit"} => pc[a] \in {"open", "gate", "debit"}
    BY <1>1, <2>1 DEF Opened, PlacesInv
  <2>7. \A a \in Agents : pc[a] = "persist" => DOMAIN docs[a] \subseteq Known
    BY DEF PaperInv, AgentInv
  <2>8. Known \subseteq Pids
    BY DEF Known
  <2> HIDE DEF Known, Sold
  <2>9. \A q \in Known : Sold(q) => Sold(q)'
    BY <1>2, <2>8 DEF SoldStays
  <2> QED
    BY <1>1, <2>2, <2>3, <2>4, <2>5, <2>6, <2>7, <2>8, <2>9 DEF BookKept, Status
<1> QED
  BY <1>3, <1>4, OpenPositionIs

LEMMA CandleKeepsBook ==
    ASSUME PlacesInv, PaperInv, BookInv, NEW c \in Candles, NEW s \in Symbols,
           HandleCandle(c, s), AgentFrame(c)
    PROVE  BookInv'
<1> USE AgentsAreApart
<1>1. SoldStays
  BY RowsStay DEF HandleCandle, AgentFrame
<1>2. BookFrame
  BY <1>1 DEF HandleCandle, AgentFrame, BookFrame, Goto, PlacesInv, portfolioVars
<1> QED
  BY <1>2, BookFrameKeeps

LEMMA OnCandleKeepsBook ==
    ASSUME PlacesInv, PaperInv, BookInv, NEW c \in Candles, OnCandle(c), AgentFrame(c)
    PROVE  BookInv'
<1> USE AgentsAreApart
<1> SUFFICES ASSUME lost' \cap {"book", "ledger"} = {} PROVE BookKept'
  BY DEF BookInv
<1>1. BookKept
  BY DEF BookInv, AgentFrame
<1>2. SoldStays
  BY RowsStay DEF OnCandle, AgentFrame
<1>3. UNCHANGED <<positions, book, info, hydrated>>
  BY DEF OnCandle
<1>4. \A a \in Agents : a # c => pc'[a] = pc[a] /\ docs'[a] = docs[a]
  BY DEF AgentFrame
<1>5. pc'[c] \in {"idle", "persist"} /\ OpenForSymbol(cur[c]) \subseteq Known
  BY DEF OnCandle, Goto, PlacesInv, OpenForSymbol, PaperInv, DocumentsInv
<1>6. pc'[c] = "persist" => docs'[c] = [p \in OpenForSymbol(cur[c]) |-> book[p]]
  BY DEF OnCandle, Goto, PlacesInv, PaperInv, DocumentsInv
<1>7. \A a \in Agents : pc[a] = "persist" => DOMAIN docs[a] \subseteq Known
  BY DEF PaperInv, AgentInv
<1>8. Known' = Known /\ Known \subseteq Pids
  BY <1>3 DEF Known
<1> HIDE DEF Known, Sold
<1>9. \A q \in Known : Sold(q) => Sold(q)'
  BY <1>2, <1>8 DEF SoldStays
<1>10. ASSUME NEW a \in Agents, pc'[a] = "persist", NEW p \in DOMAIN docs'[a], docs'[a][p] = "CLOSED"
       PROVE  Sold(p)'
  <2>1. CASE a = c
    BY <1>1, <1>5, <1>6, <1>9, <1>10, <2>1 DEF BookKept
  <2>2. CASE a # c
    BY <1>1, <1>4, <1>7, <1>9, <1>10, <2>2 DEF BookKept
  <2> QED
    BY <2>1, <2>2
<1>11. \A a \in Agents : pc'[a] \in {"open", "gate", "debit"} => hydrated'
  BY <1>1, <1>3, <1>4, <1>5 DEF BookKept
<1> QED
  BY <1>1, <1>3, <1>8, <1>9, <1>10, <1>11 DEF BookKept

LEMMA PersistKeepsBook ==
    ASSUME PlacesInv, PaperInv, BookInv, NEW c \in Candles, PersistPriceUpdates(c), AgentFrame(c)
    PROVE  BookInv'
<1> USE AgentsAreApart
<1> SUFFICES ASSUME lost' \cap {"book", "ledger"} = {} PROVE BookKept'
  BY DEF BookInv
<1>1. BookKept
  BY DEF BookInv, AgentFrame
<1>2. SoldStays
  BY RowsStay DEF PersistPriceUpdates, AgentFrame
<1>3. UNCHANGED <<book, info, hydrated>> /\ pc[c] = "persist" /\ pc'[c] \in {"idle", "close"}
  BY DEF PersistPriceUpdates, Goto, PlacesInv
<1>4. \A a \in Agents : a # c => pc'[a] = pc[a] /\ docs'[a] = docs[a]
  BY DEF AgentFrame
<1>5. \A a \in Agents : pc[a] = "persist" =>
         DOMAIN docs[a] \subseteq Known /\ \A p \in DOMAIN docs[a] : docs[a][p] \in Status
  BY DEF PaperInv, AgentInv
<1>6. Known' = Known /\ Known \subseteq Pids
  BY <1>3 DEF Known
<1> HIDE DEF Known, Sold
<1>7. \A q \in Known : Sold(q) => Sold(q)'
  BY <1>2, <1>6 DEF SoldStays
<1>8. ASSUME NEW p \in Known PROVE positions'[p] = "OPEN" \/ Sold(p)'
  <2>1. CASE positions' = positions
    BY <1>1, <1>7, <1>8, <2>1 DEF BookKept
  <2>2. CASE positions' = [q \in Pids |-> IF q \in DOMAIN docs[c] THEN docs[c][q] ELSE positions[q]]
    <3>1. positions'[p] = IF p \in DOMAIN docs[c] THEN docs[c][p] ELSE positions[p]
      BY <1>6, <1>8, <2>2
    <3>2. p \in DOMAIN docs[c] => docs[c][p] = "OPEN" \/ Sold(p)
      BY <1>1, <1>3, <1>5 DEF BookKept, Status
    <3> QED
      BY <1>1, <1>7, <1>8, <3>1, <3>2 DEF BookKept
  <2> QED
    BY <2>1, <2>2 DEF PersistPriceUpdates
<1>9. ASSUME NEW a \in Agents, pc'[a] = "persist", NEW p \in DOMAIN docs'[a], docs'[a][p] = "CLOSED"
      PROVE  Sold(p)'
  BY <1>1, <1>3, <1>4, <1>5, <1>7, <1>9 DEF BookKept
<1>10. \A a \in Agents : pc'[a] \in {"open", "gate", "debit"} => hydrated'
  BY <1>1, <1>3, <1>4 DEF BookKept
<1> QED
  BY <1>1, <1>3, <1>6, <1>7, <1>8, <1>9, <1>10 DEF BookKept

LEMMA ClosePositionKeepsBook ==
    ASSUME PlacesInv, PaperInv, BookInv, NEW a \in Candles \cup Operators,
           ClosePosition(a), AgentFrame(a)
    PROVE  BookInv'
<1> USE AgentsAreApart
<1> SUFFICES ASSUME lost' \cap {"book", "ledger"} = {} PROVE BookKept'
  BY DEF BookInv
<1>1. BookKept
  BY DEF BookInv, AgentFrame
<1>2. SoldStays
  BY RowsStay DEF ClosePosition, AgentFrame
<1>3. PICK p \in todo[a] : /\ cur' = [cur EXCEPT ![a] = p]
                           /\ book' = [book EXCEPT ![p] = IF @ = None THEN None ELSE "CLOSED"]
                           /\ positions' = [positions EXCEPT ![p] = "CLOSED"]
  BY DEF ClosePosition
<1>4. p \in Known
  BY <1>3 DEF PaperInv, AgentInv
<1>5. pc'[a] = "ledger" /\ cur'[a] = p /\ UNCHANGED <<info, hydrated, docs>>
  BY <1>3 DEF ClosePosition, Goto, PlacesInv, PaperInv, DocumentsInv
<1>6. Sold(p)'
  BY <1>5 DEF Sold, InFlight
<1>7. Known' = Known /\ Known \subseteq Pids
  BY <1>5 DEF Known
<1>8. \A q \in Pids : q # p => book'[q] = book[q] /\ positions'[q] = positions[q]
  BY <1>3 DEF PaperInv, DocumentsInv
<1>9. \A b \in Agents : pc[b] = "persist" => DOMAIN docs[b] \subseteq Known
  BY DEF PaperInv, AgentInv
<1>10. \A b \in Agents : b # a => pc'[b] = pc[b]
  BY DEF AgentFrame
<1> HIDE DEF Known, Sold
<1>11. \A q \in Known : Sold(q) => Sold(q)'
  BY <1>2, <1>7 DEF SoldStays
<1> QED
  BY <1>1, <1>5, <1>6, <1>7, <1>8, <1>9, <1>10, <1>11 DEF BookKept

LEMMA InsertTradeKeepsBook ==
    ASSUME PlacesInv, PaperInv, BookInv, NEW a \in Candles \cup Operators,
           InsertTrade(a), AgentFrame(a)
    PROVE  BookInv'
<1> USE AgentsAreApart
<1>1. PICK x \in Pnls : ledger' = Append(ledger, Trade(cur[a], x))
  BY DEF InsertTrade
<1>2. /\ Len(ledger') = Len(ledger) + 1 /\ Len(ledger) \in Nat
      /\ \A i \in 1..Len(ledger) : ledger'[i] = ledger[i]
      /\ ledger'[Len(ledger')].pos = cur[a]
  BY <1>1 DEF PaperInv, DocumentsInv, Trade
<1>3. \A p \in Pids : Row(p) => Row(p)'
  BY <1>2 DEF Row
<1>4. Row(cur[a])'
  BY <1>2 DEF Row, InsertTrade
<1>5. ASSUME NEW p \in Pids, InFlight(p) PROVE Sold(p)'
  <2>1. PICK b \in Agents : pc[b] = "ledger" /\ cur[b] = p
    BY <1>5 DEF InFlight
  <2>2. b = a
    BY <2>1 DEF PaperInv, AgentInv, Locked, InsertTrade
  <2>3. cur' = cur
    BY DEF InsertTrade
  <2> QED
    BY <1>4, <2>1, <2>2, <2>3 DEF Sold, Row
<1>6. SoldStays
  BY <1>3, <1>5 DEF SoldStays, Sold
<1>7. BookFrame
  BY <1>6 DEF InsertTrade, AgentFrame, BookFrame, Goto, PlacesInv, portfolioVars
<1> QED
  BY <1>7, BookFrameKeeps

LEMMA CreditKeepsBook ==
    ASSUME PlacesInv, PaperInv, BookInv, NEW a \in Candles \cup Operators,
           CreditAccount(a), AgentFrame(a)
    PROVE  BookInv'
<1> USE AgentsAreApart
<1> SUFFICES ASSUME lost' \cap {"book", "ledger"} = {} PROVE BookKept'
  BY DEF BookInv
<1>1. BookKept
  BY DEF BookInv, AgentFrame
<1>2. SoldStays
  BY RowsStay DEF CreditAccount, AgentFrame
<1>3. Sold(cur[a]) /\ cur[a] \in Known
  <2>1. /\ ledger # <<>> /\ ledger[Len(ledger)].pos = cur[a] /\ ledger \in Seq(TradeRow)
        /\ cur[a] \in Known
    BY DEF CreditAccount, PaperInv, DocumentsInv, AgentInv
  <2>2. Len(ledger) \in 1..Len(ledger)
    BY <2>1
  <2> QED
    BY <2>1, <2>2 DEF Sold, Row
<1>4. UNCHANGED <<positions, info, hydrated, docs>> /\ book' = [book EXCEPT ![cur[a]] = None]
  BY DEF CreditAccount, RemovePosition
<1>5. Known' = Known /\ Known \subseteq Pids
  BY <1>4 DEF Known
<1>6. \A q \in Pids : q # cur[a] => book'[q] = book[q]
  BY <1>4 DEF PaperInv, DocumentsInv
<1>7. book'[cur[a]] = None
  BY <1>3, <1>4, <1>5 DEF PaperInv, DocumentsInv
<1>8. \A b \in Agents : pc[b] = "persist" => DOMAIN docs[b] \subseteq Known
  BY DEF PaperInv, AgentInv
<1>9. pc'[a] \in {"pause", "close"} /\ \A b \in Agents : b # a => pc'[b] = pc[b]
  BY DEF CreditAccount, AgentFrame, Goto, PlacesInv
<1>10. None # "CLOSED"
  BY NoneIsNoDocument DEF Status
<1> HIDE DEF Known, Sold
<1>11. \A q \in Known : Sold(q) => Sold(q)'
  BY <1>2, <1>5 DEF SoldStays
<1> QED
  BY <1>1, <1>3, <1>4, <1>5, <1>6, <1>7, <1>8, <1>9, <1>10, <1>11 DEF BookKept

LEMMA CloseErrorKeepsBook ==
    ASSUME PlacesInv, PaperInv, BookInv, NEW a \in Candles \cup Operators,
           CloseError(a), AgentFrame(a)
    PROVE  BookInv'
<1> USE AgentsAreApart
<1>1. CASE pc[a] = "ledger"
  BY <1>1 DEF CloseError, BookInv
<1>2. CASE pc[a] # "ledger"
  <2>1. SoldStays
    BY <1>2, RowsStay DEF CloseError, AgentFrame
  <2>2. BookFrame
    BY <2>1 DEF CloseError, AgentFrame, BookFrame, Goto, PlacesInv
  <2> QED
    BY <2>2, BookFrameKeeps
<1> QED
  BY <1>1, <1>2

LEMMA OtherClosesKeepBook ==
    ASSUME PlacesInv, PaperInv, BookInv, NEW a \in Candles \cup Operators,
           AllClosed(a) \/ ReadBalance(a) \/ ReadForChange(a) \/ WriteChange(a), AgentFrame(a)
    PROVE  BookInv'
<1> USE AgentsAreApart
<1>1. ledger' = ledger /\ pc[a] # "ledger"
  BY DEF AllClosed, ReadBalance, ReadForChange, WriteChange, paperVars, Changes
<1>2. SoldStays
  BY <1>1, RowsStay DEF AgentFrame
<1>3. PICK m \in {"refresh", "wipe", "idle", "credit", "pause_w", "resume_w", "reset_w", "refresh_w",
                  "close"} : Goto(a, m)
  <2>1. CASE ReadForChange(a)
    BY <2>1 DEF ReadForChange, Changes, WriteOf
  <2>2. CASE AllClosed(a) \/ ReadBalance(a) \/ WriteChange(a)
    BY <2>2 DEF AllClosed, ReadBalance, WriteChange
  <2> QED
    BY <2>1, <2>2
<1>4. UNCHANGED <<positions, book, info, hydrated>>
  BY DEF AllClosed, ReadBalance, ReadForChange, WriteChange, paperVars
<1>5. m \in {"refresh", "wipe", "idle", "credit", "pause_w", "resume_w", "reset_w", "refresh_w",
             "close"} /\ pc'[a] = m
  BY <1>3 DEF Goto, PlacesInv
<1>6. BookFrame
  BY <1>2, <1>4, <1>5 DEF AgentFrame, BookFrame
<1> QED
  BY <1>6, BookFrameKeeps

LEMMA CallsKeepBook ==
    ASSUME PlacesInv, PaperInv, BookInv, NEW o \in Operators, NEW what,
           CallPaper(o, what) \/ HardReset(o), AgentFrame(o)
    PROVE  BookInv'
<1> USE AgentsAreApart
<1>1. ledger' = ledger /\ pc[o] # "ledger"
  BY DEF CallPaper, HardReset
<1>2. SoldStays
  BY <1>1, RowsStay DEF AgentFrame
<1>3. PICK m \in {"idle", "close"} \cup Changes : Goto(o, m)
  BY DEF CallPaper, HardReset
<1>4. m \in {"idle", "close"} \cup Changes /\ pc'[o] = m
  BY <1>3 DEF Goto, PlacesInv
<1>5. UNCHANGED <<positions, book, info, hydrated>>
  BY DEF CallPaper, HardReset
<1>6. BookFrame
  BY <1>2, <1>4, <1>5 DEF AgentFrame, BookFrame, Changes
<1> QED
  BY <1>6, BookFrameKeeps

(* When nothing is open and no close is under way, everything has its row.   *)
LEMMA WipeKeepsBook ==
    ASSUME PlacesInv, PaperInv, BookInv, NEW o \in Operators, WipePositions(o), AgentFrame(o)
    PROVE  BookInv'
<1> USE AgentsAreApart, NoneIsNoDocument
<1> SUFFICES ASSUME lost' \cap {"book", "ledger"} = {} PROVE BookKept'
  BY DEF BookInv
<1>1. BookKept
  BY DEF BookInv, AgentFrame
<1>2. SoldStays
  BY RowsStay DEF WipePositions, AgentFrame
<1>3. GetOpenPositions = {}
  BY DEF WipePositions
<1>4. UNCHANGED <<info, hydrated, docs>> /\ \A p \in Pids : book'[p] = None
  BY DEF WipePositions, HydrateBook
<1>5. Known' = Known /\ Known \subseteq Pids
  BY <1>4 DEF Known
<1>6. \A p \in Known : positions[p] # "OPEN"
  BY <1>3, <1>5 DEF GetOpenPositions
<1>7. \A b \in Agents : pc[b] = "persist" => DOMAIN docs[b] \subseteq Known
  BY DEF PaperInv, AgentInv
<1>8. pc'[o] = "fresh" /\ \A b \in Agents : b # o => pc'[b] = pc[b]
  BY DEF WipePositions, AgentFrame, Goto, PlacesInv
<1>9. None # "CLOSED"
  BY NoneIsNoDocument DEF Status
<1> HIDE DEF Known, Sold
<1>10. \A q \in Known : Sold(q) => Sold(q)'
  BY <1>2, <1>5 DEF SoldStays
<1> QED
  BY <1>1, <1>4, <1>5, <1>6, <1>7, <1>8, <1>9, <1>10 DEF BookKept

LEMMA RestartKeepsBook ==
    ASSUME PlacesInv, PaperInv, BookInv, Restart
    PROVE  BookInv'
<1> USE AgentsAreApart, NoneIsNoDocument
<1> SUFFICES ASSUME lost' \cap {"book", "ledger"} = {} PROVE BookKept'
  BY DEF BookInv
<1>1. \A a \in Agents : pc[a] # "ledger"
  BY DEF Restart
<1>2. BookKept
  BY DEF BookInv, Restart
<1>3. UNCHANGED <<positions, info, ledger>> /\ ~hydrated' /\ \A p \in Pids : book'[p] = None
  BY DEF Restart, HydrateBook
<1>4. \A a \in Agents : pc'[a] \in {"done", "idle"}
  BY DEF Restart
<1>5. Known' = Known /\ Known \subseteq Pids
  BY <1>3 DEF Known
<1>6. \A p : Sold(p) => Sold(p)'
  BY <1>1, <1>3 DEF Sold, Row, InFlight
<1>7. None # "CLOSED"
  BY NoneIsNoDocument DEF Status
<1> HIDE DEF Known, Sold
<1> QED
  BY <1>2, <1>3, <1>4, <1>5, <1>6, <1>7 DEF BookKept

(* A step of the portfolio layer, and none at all.                           *)
LEMMA PortfolioKeepsBook ==
    ASSUME PaperInv, BookInv, NEW t \in Tasks, NEW m, PortfolioMove(t, m), UNCHANGED paperVars,
           AgentFrame(t), PlacesInv
    PROVE  BookInv'
<1> USE AgentsAreApart
<1>1. SoldStays
  BY RowsStay DEF PortfolioMove, AgentFrame, PortfolioPlaces, paperVars
<1>2. pc'[t] = m
  BY DEF PortfolioMove, Goto, PlacesInv
<1>3. BookFrame
  BY <1>1, <1>2 DEF PortfolioMove, AgentFrame, BookFrame, PortfolioPlaces, paperVars
<1> QED
  BY <1>3, BookFrameKeeps

LEMMA StutterKeepsBook == ASSUME PaperInv, BookInv, UNCHANGED vars PROVE BookInv'
BY DEF BookInv, BookKept, Sold, Row, InFlight, Known, vars, paperVars, acctVars, portfolioVars

LEMMA BookInvInit == Init => BookInv
<1> SUFFICES ASSUME Init PROVE BookKept
  BY DEF BookInv
<1>1. Known = {}
  BY NoneIsNoDocument DEF Init, Known
<1> QED
  BY <1>1 DEF Init, BookKept

LEMMA BookStep ==
    ASSUME PortfolioInv, PaperInv, BookInv, [Next]_vars
    PROVE  BookInv'
<1> USE AgentsAreApart DEF PortfolioInv
<1>1. CASE PortfolioNext /\ UNCHANGED paperVars /\ limits' = limits
  <2>1. PICK t \in Tasks, m \in PortfolioPlaces \cup {"idle", "done", "approved"} : PortfolioMove(t, m)
    BY <1>1, PortfolioMoves
  <2>2. AgentFrame(t)
    BY <1>1, <2>1, PortfolioLeavesPaper DEF PortfolioMove, PortfolioPlaces, Locked, Writing
  <2> QED
    BY <1>1, <2>1, <2>2, PortfolioKeepsBook
<1>2. CASE limits' = limits /\ \E a \in Deliveries \cup Candles : EnsureReady(a) \/ NotReady(a) \/ Hydrate(a)
  BY <1>2, EnsureReadyKeepsPaper, NotReadyKeepsPaper, HydrateKeepsPaper, ReadyKeepsBook,
     HydrateKeepsBook
<1>3. CASE limits' = limits /\ \E d \in Deliveries : OpenRead(d) \/ OpenPosition(d) \/ DebitAccount(d) \/ OpenError(d)
  BY <1>3, OpenReadKeepsPaper, OpenPositionKeepsPaper, DebitAccountKeepsPaper, OpenErrorKeepsPaper,
     OpenKeepsBook, OpenPositionKeepsBook
<1>4. CASE limits' = limits /\ \E c \in Candles :
              (\E s \in Symbols : HandleCandle(c, s)) \/ OnCandle(c) \/ PersistPriceUpdates(c)
  BY <1>4, HandleCandleKeepsPaper, OnCandleKeepsPaper, PersistPriceUpdatesKeepsPaper,
     CandleKeepsBook, OnCandleKeepsBook, PersistKeepsBook
<1>5. CASE limits' = limits /\ \E a \in Candles \cup Operators : CloseStep(a)
  BY <1>5, AllClosedKeepsPaper, ClosePositionKeepsPaper, InsertTradeKeepsPaper,
     ReadBalanceKeepsPaper, CreditAccountKeepsPaper, CloseErrorKeepsPaper,
     ReadForChangeKeepsPaper, WriteChangeKeepsPaper, ClosePositionKeepsBook,
     InsertTradeKeepsBook, CreditKeepsBook, CloseErrorKeepsBook, OtherClosesKeepBook DEF CloseStep
<1>6. CASE limits' = limits /\ \E o \in Operators :
              \/ \E what \in {"pause", "resume", "reset", "close_all", "hard_reset"} : CallPaper(o, what)
              \/ WipePositions(o) \/ HardReset(o)
  BY <1>6, CallPaperKeepsPaper, WipePositionsKeepsPaper, HardResetKeepsPaper, CallsKeepBook,
     WipeKeepsBook
<1>7. CASE Restart
  BY <1>7, RestartKeepsBook
<1>8. CASE UNCHANGED vars
  BY <1>8, StutterKeepsBook
<1> QED
  BY <1>1, <1>2, <1>3, <1>4, <1>5, <1>6, <1>7, <1>8 DEF Next, Step, CloseStep

(* A position is never forgotten: until its ledger row is written it is open *)
(* in the documents and, after hydration, in the book.                       *)
THEOREM BookInvariant == Spec => []BookInv
<1>1. PortfolioInv /\ PaperInv /\ BookInv /\ [Next]_vars => BookInv'
  BY BookStep
<1> QED
  BY BookInvInit, PortfolioInvariant, PaperInvariant, <1>1, PTL DEF Spec

-----------------------------------------------------------------------------
(* The daily trade cap                                                      *)

LEMMA LostStays ==
    ASSUME PlacesInv, [Next]_vars
    PROVE  lost \subseteq lost' /\ limits' = limits
<1>1. CASE PortfolioNext /\ Next
  BY <1>1, PortfolioMoves DEF PortfolioMove, Next
<1>2. CASE Restart /\ Next
  BY <1>2 DEF Restart, Next
<1>3. CASE Next /\ ~PortfolioNext /\ ~Restart
  BY <1>3, PaperFrames DEF PaperFrame, Next
<1>4. CASE UNCHANGED vars
  BY <1>4 DEF vars, portfolioVars
<1> QED
  BY <1>1, <1>2, <1>3, <1>4

(* Positions are created by openings only.                                   *)
LEMMA OnlyOpeningsCreate ==
    ASSUME [Next]_vars, \A d \in Deliveries : ~OpenPosition(d)
    PROVE  info' = info
<1>1. CASE PortfolioNext /\ UNCHANGED paperVars
  BY <1>1 DEF paperVars
<1>2. CASE \E a \in Deliveries \cup Candles : EnsureReady(a) \/ NotReady(a) \/ Hydrate(a)
  BY <1>2 DEF EnsureReady, NotReady, Hydrate
<1>3. CASE \E d \in Deliveries : OpenRead(d) \/ DebitAccount(d) \/ OpenError(d)
  BY <1>3 DEF OpenRead, DebitAccount, OpenError
<1>4. CASE \E c \in Candles :
              (\E s \in Symbols : HandleCandle(c, s)) \/ OnCandle(c) \/ PersistPriceUpdates(c)
  BY <1>4 DEF HandleCandle, OnCandle, PersistPriceUpdates
<1>5. CASE \E a \in Candles \cup Operators : CloseStep(a)
  BY <1>5 DEF CloseStep, AllClosed, ClosePosition, InsertTrade, ReadBalance, CreditAccount,
     CloseError, ReadForChange, WriteChange, paperVars
<1>6. CASE \E o \in Operators :
              \/ \E what \in {"pause", "resume", "reset", "close_all", "hard_reset"} : CallPaper(o, what)
              \/ WipePositions(o) \/ HardReset(o)
  BY <1>6 DEF CallPaper, WipePositions, HardReset
<1>7. CASE Restart
  BY <1>7 DEF Restart
<1>8. CASE UNCHANGED vars
  BY <1>8 DEF vars, paperVars
<1> QED
  BY <1>1, <1>2, <1>3, <1>4, <1>5, <1>6, <1>7, <1>8 DEF Next, Step, CloseStep

(* There are at most as many positions with a row as there are rows.         *)
LEMMA RowsAreFew ==
    ASSUME PaperInv
    PROVE  /\ Cardinality({p \in Pids : Row(p)}) <= Len(ledger) /\ Len(ledger) \in Nat
           /\ IsFiniteSet({p \in Pids : Row(p)})
<1> DEFINE n == Len(ledger)
           S == {p \in Pids : Row(p)}
           f == [i \in 1..n |-> ledger[i].pos]
<1>1. ledger \in Seq(TradeRow) /\ n \in Nat /\ \A i \in 1..n : ledger[i].pos \in Pids
  <2>1. ledger \in Seq(TradeRow)
    BY DEF PaperInv, DocumentsInv
  <2>2. n \in Nat /\ \A i \in 1..n : ledger[i] \in TradeRow
    BY <2>1
  <2> QED
    BY <2>1, <2>2 DEF TradeRow
<1>2. f \in [1..n -> S] /\ \A p \in S : \E i \in 1..n : f[i] = p
  BY <1>1 DEF Row
<1>3. ExistsSurjection(1..n, S)
  <2> HIDE DEF f, S, n
  <2> QED
    BY <1>2 DEF ExistsSurjection, Surjection
<1>4. IsFiniteSet(S)
  <2>1. IsFiniteSet(Pids) /\ S \in SUBSET Pids
    BY PaperAssumption
  <2> HIDE DEF S
  <2> QED
    BY <2>1, FS_Subset
<1> HIDE DEF f, S, n
<1>5. Cardinality(S) <= n
  BY <1>1, <1>3, FS_SurjCardinalityBound
<1> QED
  BY <1>1, <1>4, <1>5 DEF n, S

(* At the gate every position opened so far has a row or is in the book.     *)
LEMMA OpenedAreCounted ==
    ASSUME PaperInv, BookKept, NEW d \in Deliveries, pc[d] = "gate"
    PROVE  /\ Cardinality(Known) <= CountForDate + OpenCount /\ IsFiniteSet(Known)
           /\ Cardinality(Known) \in Nat /\ OpenCount \in Nat
<1> USE AgentsAreApart
<1> DEFINE R == {p \in Pids : Row(p)}
           B == {p \in Pids : book[p] # None}
<1>1. \A p \in Pids : ~InFlight(p)
  BY DEF PaperInv, AgentInv, Locked, InFlight
<1>2. hydrated
  BY DEF BookKept
<1>3. Known \subseteq R \cup B
  BY <1>1, <1>2 DEF BookKept, Sold, Known
<1>4. IsFiniteSet(R) /\ IsFiniteSet(B) /\ IsFiniteSet(Known)
  <2>1. IsFiniteSet(Pids) /\ B \in SUBSET Pids /\ Known \in SUBSET Pids
    BY PaperAssumption DEF Known
  <2>2. IsFiniteSet(R)
    BY RowsAreFew
  <2> HIDE DEF R, B
  <2> QED
    BY <2>1, <2>2, FS_Subset
<1>5. OpenCount = Cardinality(B) /\ Cardinality(R) <= Len(ledger) /\ Len(ledger) \in Nat
  BY RowsAreFew DEF OpenCount
<1> HIDE DEF R, B
<1>6. /\ IsFiniteSet(R \cup B)
      /\ Cardinality(R \cup B) = Cardinality(R) + Cardinality(B) - Cardinality(R \cap B)
  BY <1>4, FS_Union
<1>7. IsFiniteSet(R \cap B)
  BY <1>4, FS_Subset
<1>8. /\ Cardinality(R) \in Nat /\ Cardinality(B) \in Nat /\ Cardinality(R \cap B) \in Nat
      /\ Cardinality(Known) \in Nat
  BY <1>4, <1>7, FS_CardinalityType
<1>9. Cardinality(Known) <= Cardinality(R \cup B)
  BY <1>3, <1>6, FS_Subset
<1> QED
  BY <1>4, <1>5, <1>6, <1>8, <1>9 DEF CountForDate

LEMMA TradesStep ==
    ASSUME PortfolioInv, PaperInv, BookInv, TradesWithinCap, [Next]_vars
    PROVE  TradesWithinCap'
<1> USE AgentsAreApart DEF PortfolioInv
<1>1. lost \subseteq lost' /\ limits' = limits
  BY LostStays
<1>2. CASE \A d \in Deliveries : ~OpenPosition(d)
  BY <1>1, <1>2, OnlyOpeningsCreate DEF TradesWithinCap
<1>3. ASSUME NEW d \in Deliveries, OpenPosition(d) PROVE TradesWithinCap'
  <2>1. SUFFICES ASSUME lost' \cap {"book", "ledger"} = {}
                 PROVE  Cardinality({p \in Pids : info'[p] # None}) <= limits'.trades
    BY DEF TradesWithinCap
  <2>2. pc[d] = "gate" /\ ((\E p \in Pids : Opened(d, p)) \/ TurnedAway(d))
    BY <1>3, OpenPositionIs
  <2>3. BookKept
    BY <1>1, <2>1 DEF BookInv
  <2>4. CASE TurnedAway(d)
    BY <1>1, <2>1, <2>4 DEF TradesWithinCap, TurnedAway
  <2>5. CASE \E p \in Pids : Opened(d, p)
    <3>1. PICK p \in Pids : Opened(d, p)
      BY <2>5
    <3>2. {q \in Pids : info'[q] # None} = Known \cup {p}
      BY <3>1, NoneIsNoDocument DEF Opened, Known, PaperInv, DocumentsInv
    <3>3. /\ Cardinality(Known) <= CountForDate + OpenCount /\ IsFiniteSet(Known)
          /\ Cardinality(Known) \in Nat /\ OpenCount \in Nat
      BY <2>2, <2>3, OpenedAreCounted
    <3>4. CountForDate + OpenCount < limits.trades
      BY <3>1 DEF Opened, EvaluatePaper, CheckDailyTrades
    <3>5. Cardinality(Known \cup {p}) <= Cardinality(Known) + 1
      <4> HIDE DEF Known
      <4>1. Cardinality(Known \cup {p}) \in {Cardinality(Known), Cardinality(Known) + 1}
        BY <3>3, FS_AddElement
      <4> QED
        BY <3>3, <4>1
    <3>6. limits.trades \in Nat /\ CountForDate \in Nat
      <4>1. limits \in Limits /\ Limits \subseteq [trades : Nat, losses : Nat]
        BY PaperAssumption DEF PaperInv, DocumentsInv
      <4>2. CountForDate \in Nat
        BY RowsAreFew DEF CountForDate
      <4> QED
        BY <4>1, <4>2
    <3>7. Cardinality(Known \cup {p}) \in Nat
      BY <3>3, FS_AddElement, FS_CardinalityType
    <3> HIDE DEF Known, CountForDate, OpenCount
    <3>8. Cardinality(Known \cup {p}) <= limits.trades
      BY <3>3, <3>4, <3>5, <3>6, <3>7
    <3> QED
      BY <1>1, <3>2, <3>8
  <2> QED
    BY <2>2, <2>4, <2>5
<1> QED
  BY <1>2, <1>3

(* At most limits.trades positions are opened in a day, whatever is closed,  *)
(* reset, restarted or delivered meanwhile, as long as no hydration came     *)
(* late and no ledger row is missing.                                        *)
THEOREM TradesWithinCapTheorem == Spec => []TradesWithinCap
<1>1. Init => TradesWithinCap
  <2> SUFFICES ASSUME Init PROVE Cardinality({p \in Pids : info[p] # None}) <= limits.trades
    BY DEF TradesWithinCap
  <2>1. {p \in Pids : info[p] # None} = {}
    BY DEF Init
  <2>2. limits.trades \in Nat
    BY PaperAssumption DEF Init
  <2> QED
    BY <2>1, <2>2, FS_EmptySet
<1>2. PortfolioInv /\ PaperInv /\ BookInv /\ TradesWithinCap /\ [Next]_vars => TradesWithinCap'
  BY TradesStep
<1> QED
  BY <1>1, <1>2, PortfolioInvariant, PaperInvariant, BookInvariant, PTL DEF Spec

-----------------------------------------------------------------------------
(* The loss cooldown                                                        *)

(* Lengths of the losing runs at the end of the ledger since the last reset. *)
Runs == {k \in 0..Len(ledger) - mark.daily :
            \A i \in Len(ledger) - k + 1..Len(ledger) : ledger[i].pnl <= 0}

Closing == {a \in Agents : pc[a] \in {"balance", "credit"}}

(* The account counts every run, but for the trade a closing task has still  *)
(* to credit, and so does the copy a delivery decides on.                    *)
StreakKept ==
    /\ ~cold
    /\ Closing = {} => \A k \in Runs : k <= account.losses
    /\ Closing # {} => \A k \in Runs : k <= account.losses + 1
    /\ \A a \in Agents : pc[a] = "gate" => \A k \in Runs : k <= acopy[a].losses
MarkInv ==
    /\ DOMAIN mark = {"hard", "daily"} /\ mark.hard \in Nat /\ mark.daily \in Nat
    /\ mark.hard <= Len(ledger) /\ mark.daily <= Len(ledger)
StreakInv == MarkInv /\ (lost \cap {"account", "ledger"} = {} => StreakKept)

(* Whoever holds the lock is alone between the statements it protects.       *)
LEMMA LockExcludes ==
    ASSUME PaperInv
    PROVE  /\ \A a, b \in Agents : pc[a] \in Locked /\ pc[b] \in Locked => a = b
           /\ mlock = None => Closing = {} /\ \A a \in Agents : pc[a] \notin Locked
           /\ \A a \in Agents : pc[a] \in {"gate", "debit", "ledger"} => Closing = {}
BY NoneIsNoDocument DEF PaperInv, AgentInv, Locked, Closing

StreakFrame ==
    /\ lost \subseteq lost'
    /\ UNCHANGED <<ledger, mark>> /\ (cold' => cold) /\ account'.losses = account.losses
    /\ Closing' = Closing
    /\ \A a \in Agents : pc'[a] = "gate" => pc[a] = "gate" /\ acopy'[a] = acopy[a]

LEMMA StreakFrameKeeps ==
    ASSUME StreakInv, lost' \cap {"account", "ledger"} = {} => StreakFrame,
           UNCHANGED <<ledger, mark>>
    PROVE  StreakInv'
<1>1. MarkInv'
  BY DEF StreakInv, MarkInv
<1> SUFFICES ASSUME lost' \cap {"account", "ledger"} = {} PROVE StreakKept'
  BY <1>1 DEF StreakInv
<1>2. StreakKept
  BY DEF StreakInv, StreakFrame
<1>3. Runs' = Runs
  BY DEF Runs
<1> HIDE DEF Runs, Closing
<1> QED
  BY <1>2, <1>3 DEF StreakKept, StreakFrame

LEMMA ReadyKeepsStreak ==
    ASSUME PlacesInv, StreakInv, NEW a \in Deliveries \cup Candles,
           EnsureReady(a) \/ NotReady(a) \/ Hydrate(a), AgentFrame(a)
    PROVE  StreakInv'
<1> USE AgentsAreApart
<1>1. UNCHANGED <<ledger, mark, cold, account, acopy>>
  BY DEF EnsureReady, NotReady, Hydrate, acctVars
<1>2. pc[a] \notin {"balance", "credit", "gate"} /\ pc'[a] \notin {"balance", "credit", "gate"}
  BY DEF EnsureReady, NotReady, Hydrate, Goto, PlacesInv, Handler, Finish
<1>3. StreakFrame
  BY <1>1, <1>2 DEF StreakFrame, AgentFrame, Closing
<1> QED
  BY <1>1, <1>3, StreakFrameKeeps

LEMMA OpenReadKeepsStreak ==
    ASSUME PlacesInv, PaperInv, StreakInv, NEW d \in Deliveries, OpenRead(d), AgentFrame(d)
    PROVE  StreakInv'
<1> USE AgentsAreApart
<1>1. UNCHANGED <<ledger, mark, cold, account, lost>> /\ mlock = None
  BY DEF OpenRead, acctVars, portfolioVars
<1>2. pc'[d] = "gate" /\ acopy'[d] = account
  BY DEF OpenRead, Goto, PlacesInv, ReadAccountRow, PaperInv, DocumentsInv
<1>3. Closing = {} /\ Closing' = {} /\ \A a \in Agents : a # d => pc'[a] # "gate"
  BY <1>1, <1>2, LockExcludes DEF AgentFrame, Closing, Locked
<1>4. Runs' = Runs /\ MarkInv'
  BY <1>1 DEF Runs, StreakInv, MarkInv
<1> HIDE DEF Runs, Closing
<1> QED
  BY <1>1, <1>2, <1>3, <1>4 DEF StreakInv, StreakKept

LEMMA StreakIs ==
    ASSUME PaperInv, MarkInv
    PROVE  Streak \in Runs
<1> DEFINE n == Len(ledger)
<1>1. ledger \in Seq(TradeRow) /\ n \in Nat /\ mark.daily \in Nat /\ mark.daily <= n
  BY DEF PaperInv, DocumentsInv, MarkInv
<1>2. 0 \in Runs
  BY <1>1 DEF Runs
<1>3. Runs \subseteq 0..n - mark.daily
  BY DEF Runs
<1>4. IsFiniteSet(Runs) /\ Runs \subseteq Int
  <2>1. IsFiniteSet(0..n - mark.daily)
    BY <1>1, FS_Interval
  <2>2. IsFiniteSet(Runs)
    BY <1>3, <2>1, FS_Subset
  <2> QED
    BY <1>3, <2>2
<1>5. Max(Runs) \in Runs
  BY <1>2, <1>4, MaxExists
<1>6. Streak = Max(Runs)
  BY DEF Streak, Runs
<1> QED
  BY <1>5, <1>6

(* The copy a delivery decides on has counted every run.                     *)
LEMMA OpenPositionKeepsStreak ==
    ASSUME PlacesInv, PortfolioType, PaperInv, StreakInv, NEW d \in Deliveries,
           OpenPosition(d), AgentFrame(d)
    PROVE  StreakInv'
<1> USE AgentsAreApart
<1>1. /\ UNCHANGED <<lost, account, writes, ledger, hydrated, todo, docs, mark>>
      /\ pc[d] = "gate" /\ mlock = d
  BY OpenPositionIs
<1>2. (\E p \in Pids : Opened(d, p)) \/ TurnedAway(d)
  BY OpenPositionIs
<1>3. pc'[d] \in {"debit", "done"}
  BY <1>2 DEF Opened, TurnedAway, PlacesInv
<1>4. ASSUME StreakKept PROVE ~cold'
  <2>1. CASE TurnedAway(d)
    BY <1>4, <2>1 DEF TurnedAway, StreakKept
  <2>2. CASE \E p \in Pids : Opened(d, p)
    <3>1. ~(acopy[d].losses >= limits.losses)
      BY <2>2 DEF Opened, EvaluatePaper, CheckConsecutiveLosses, CoolingDown
    <3>2. Streak <= acopy[d].losses /\ Streak \in Int
      <4>1. Streak \in Runs
        BY StreakIs DEF StreakInv
      <4>2. Streak \in Int
        BY <4>1 DEF Runs
      <4> QED
        BY <1>1, <1>4, <4>1, <4>2 DEF StreakKept
    <3>3. limits.losses \in Int /\ acopy[d].losses \in Int
      <4>1. limits \in Limits /\ Limits \subseteq [trades : Nat, losses : Nat]
        BY PaperAssumption DEF PaperInv, DocumentsInv
      <4>2. acopy[d] \in AccountDoc
        BY <1>1 DEF PaperInv, AgentInv, Writing
      <4>3. limits.losses \in Nat
        BY <4>1
      <4>4. acopy[d].losses \in Nat
        BY <4>2 DEF AccountDoc
      <4> QED
        BY <4>3, <4>4
    <3>4. ~(Streak >= limits.losses)
      BY <3>1, <3>2, <3>3
    <3> QED
      BY <1>4, <2>2, <3>4 DEF Opened, StreakKept
  <2> QED
    BY <1>2, <2>1, <2>2
<1>5. Closing' = Closing /\ \A a \in Agents : pc'[a] = "gate" => pc[a] = "gate" /\ acopy'[a] = acopy[a]
  BY <1>1, <1>3 DEF AgentFrame, Closing
<1>6. StreakKept => StreakFrame
  BY <1>1, <1>4, <1>5 DEF StreakFrame
<1> QED
  BY <1>1, <1>6, StreakFrameKeeps DEF StreakInv

(* A reservation leaves the losses alone.                                    *)
LEMMA DebitKeepsStreak ==
    ASSUME PlacesInv, PaperInv, StreakInv, NEW d \in Deliveries, DebitAccount(d), AgentFrame(d)
    PROVE  StreakInv'
<1> USE AgentsAreApart
<1>1. UNCHANGED <<ledger, mark, cold>> /\ pc[d] = "debit" /\ pc'[d] = "done"
  BY DEF DebitAccount, Goto, PlacesInv
<1>2. acopy[d] \in AccountDoc /\ CostOf(cur[d]) \in Int
  BY <1>1 DEF PaperInv, AgentInv, Writing, Known, Info, CostOf
<1>3. ASSUME "account" \notin lost' PROVE account'.losses = account.losses
  <2>1. acopy[d] = account
    BY <1>1, <1>3 DEF DebitAccount, WriteAccountRow, PaperInv, AgentInv, Writing
  <2>2. account' = ApplyEntry(acopy[d], CostOf(cur[d]))
    BY DEF DebitAccount, WriteAccountRow
  <2> QED
    BY <1>2, <2>1, <2>2, ApplyEntryIs
<1>4. "account" \notin lost' => StreakFrame
  BY <1>1, <1>3 DEF StreakFrame, AgentFrame, Closing
<1> QED
  BY <1>1, <1>4, StreakFrameKeeps

LEMMA OpenErrorKeepsStreak ==
    ASSUME PlacesInv, StreakInv, NEW d \in Deliveries, OpenError(d), AgentFrame(d)
    PROVE  StreakInv'
<1> USE AgentsAreApart
<1>1. UNCHANGED <<ledger, mark, cold, account>> /\ pc[d] \in {"gate", "debit"} /\ pc'[d] = "done"
  BY DEF OpenError, Goto, PlacesInv, acctVars
<1>2. StreakFrame
  BY <1>1 DEF StreakFrame, AgentFrame, Closing
<1> QED
  BY <1>1, <1>2, StreakFrameKeeps

LEMMA CandleKeepsStreak ==
    ASSUME PlacesInv, StreakInv, NEW c \in Candles,
           (\E s \in Symbols : HandleCandle(c, s)) \/ OnCandle(c) \/ PersistPriceUpdates(c),
           AgentFrame(c)
    PROVE  StreakInv'
<1> USE AgentsAreApart
<1>1. UNCHANGED <<ledger, mark, cold, account>>
  BY DEF HandleCandle, OnCandle, PersistPriceUpdates, acctVars
<1>2. pc[c] \in {"idle", "mark", "persist"} /\ pc'[c] \in {"candle", "persist", "idle", "close"}
  BY DEF HandleCandle, OnCandle, PersistPriceUpdates, Goto, PlacesInv
<1>3. StreakFrame
  BY <1>1, <1>2 DEF StreakFrame, AgentFrame, Closing
<1> QED
  BY <1>1, <1>3, StreakFrameKeeps

LEMMA QuietClosesKeepStreak ==
    ASSUME PlacesInv, StreakInv, NEW a \in Candles \cup Operators,
           AllClosed(a) \/ ClosePosition(a) \/ ReadForChange(a), AgentFrame(a)
    PROVE  StreakInv'
<1> USE AgentsAreApart
<1>1. UNCHANGED <<ledger, mark, cold, account>>
  BY DEF AllClosed, ClosePosition, ReadForChange, acctVars, paperVars
<1>2. /\ pc[a] \in {"close"} \cup Changes
      /\ pc'[a] \in {"refresh", "wipe", "idle", "ledger", "pause_w", "resume_w", "reset_w", "refresh_w"}
  <2>1. CASE ReadForChange(a)
    BY <2>1 DEF ReadForChange, Goto, PlacesInv, Changes, WriteOf
  <2>2. CASE AllClosed(a) \/ ClosePosition(a)
    BY <2>2 DEF AllClosed, ClosePosition, Goto, PlacesInv
  <2> QED
    BY <2>1, <2>2
<1>3. StreakFrame
  BY <1>1, <1>2 DEF StreakFrame, AgentFrame, Closing, Changes
<1> QED
  BY <1>1, <1>3, StreakFrameKeeps

LEMMA ReadBalanceKeepsStreak ==
    ASSUME PlacesInv, StreakInv, NEW a \in Candles \cup Operators, ReadBalance(a), AgentFrame(a)
    PROVE  StreakInv'
<1> USE AgentsAreApart
<1>1. UNCHANGED <<ledger, mark, cold, account>> /\ pc[a] = "balance" /\ pc'[a] = "credit"
  BY DEF ReadBalance, acctVars, Goto, PlacesInv
<1>2. StreakFrame
  BY <1>1 DEF StreakFrame, AgentFrame, Closing
<1> QED
  BY <1>1, <1>2, StreakFrameKeeps

(* A new row lengthens a losing run by one at most.                          *)
LEMMA InsertTradeKeepsStreak ==
    ASSUME PlacesInv, PaperInv, StreakInv, NEW a \in Candles \cup Operators,
           InsertTrade(a), AgentFrame(a)
    PROVE  StreakInv'
<1> USE AgentsAreApart
<1>1. PICK x \in Pnls : ledger' = Append(ledger, Trade(cur[a], x))
  BY DEF InsertTrade
<1>2. /\ Len(ledger') = Len(ledger) + 1 /\ Len(ledger) \in Nat
      /\ \A i \in 1..Len(ledger) : ledger'[i] = ledger[i]
  BY <1>1 DEF PaperInv, DocumentsInv
<1>3. UNCHANGED <<mark, cold, account, lost>> /\ pc[a] = "ledger" /\ pc'[a] = "balance"
  BY DEF InsertTrade, acctVars, portfolioVars, Goto, PlacesInv
<1>4. MarkInv'
  BY <1>2, <1>3 DEF StreakInv, MarkInv
<1> SUFFICES ASSUME lost' \cap {"account", "ledger"} = {} PROVE StreakKept'
  BY <1>4 DEF StreakInv
<1>5. StreakKept
  BY <1>3 DEF StreakInv
<1>6. Closing = {} /\ a \in Closing'
  BY <1>3, LockExcludes DEF Closing
<1>7. ASSUME NEW k \in Runs' PROVE k <= account.losses + 1
  <2>1. account.losses \in Nat
    BY DEF PaperInv, DocumentsInv, AccountDoc
  <2>2. /\ k \in 0..Len(ledger) + 1 - mark.daily /\ mark.daily \in Nat /\ mark.daily <= Len(ledger)
        /\ \A i \in Len(ledger) + 1 - k + 1..Len(ledger) + 1 : ledger'[i].pnl <= 0
    BY <1>2, <1>3, <1>7 DEF Runs, StreakInv, MarkInv
  <2>3. CASE k = 0
    BY <2>1, <2>3
  <2>4. CASE k # 0
    <3>1. k - 1 \in 0..Len(ledger) - mark.daily
      BY <1>2, <2>2, <2>4
    <3>2. ASSUME NEW i \in Len(ledger) - (k - 1) + 1..Len(ledger) PROVE ledger[i].pnl <= 0
      <4>1. i \in 1..Len(ledger) /\ i \in Len(ledger) + 1 - k + 1..Len(ledger) + 1
        BY <1>2, <2>2, <3>1, <3>2
      <4> QED
        BY <1>2, <2>2, <4>1
    <3>3. k - 1 \in Runs
      BY <3>1, <3>2 DEF Runs
    <3>4. k - 1 <= account.losses
      BY <1>5, <1>6, <3>3 DEF StreakKept
    <3> QED
      BY <2>1, <2>2, <3>1, <3>4
  <2> QED
    BY <2>3, <2>4
<1>8. \A b \in Agents : pc'[b] # "gate"
  BY <1>3, LockExcludes DEF AgentFrame, Locked
<1> HIDE DEF Runs, Closing
<1> QED
  BY <1>3, <1>5, <1>6, <1>7, <1>8 DEF StreakKept

(* The account catches up with the ledger.                                   *)
LEMMA CreditKeepsStreak ==
    ASSUME PlacesInv, PaperInv, StreakInv, NEW a \in Candles \cup Operators,
           CreditAccount(a), AgentFrame(a)
    PROVE  StreakInv'
<1> USE AgentsAreApart
<1>1. UNCHANGED <<ledger, mark, cold>> /\ pc[a] = "credit" /\ pc'[a] \in {"pause", "close"}
  BY DEF CreditAccount, Goto, PlacesInv
<1>2. MarkInv'
  BY <1>1 DEF StreakInv, MarkInv
<1> SUFFICES ASSUME lost' \cap {"account", "ledger"} = {} PROVE StreakKept'
  BY <1>2 DEF StreakInv
<1>3. StreakKept
  BY DEF StreakInv, AgentFrame
<1>4. acopy[a] = account /\ acopy[a] \in AccountDoc
  BY <1>1 DEF CreditAccount, WriteAccountRow, PaperInv, AgentInv, Writing
<1>5. CostOf(cur[a]) \in Int
  BY <1>1 DEF PaperInv, AgentInv, Known, Info, CostOf
<1>6. OwnTrade(a) = ledger[Len(ledger)] /\ OwnTrade(a).pnl \in Int
  BY <1>1, OwnTradeIs, PaperAssumption DEF TradeRow
<1>7. account'.losses = IF OwnTrade(a).pnl > 0 THEN 0 ELSE account.losses + 1
  <2>1. account' = ApplyRealized(acopy[a], CostOf(cur[a]), OwnTrade(a).pnl)
    BY DEF CreditAccount, WriteAccountRow
  <2> QED
    BY <1>4, <1>5, <1>6, <2>1, ApplyRealizedIs
<1>8. Runs' = Runs
  BY <1>1 DEF Runs
<1>9. Closing # {}
  BY <1>1 DEF Closing
<1>10. ASSUME NEW k \in Runs PROVE k <= account'.losses
  <2>1. k <= account.losses + 1
    BY <1>3, <1>9 DEF StreakKept
  <2>2. CASE OwnTrade(a).pnl > 0
    <3>1. k \in Nat /\ \A i \in Len(ledger) - k + 1..Len(ledger) : ledger[i].pnl <= 0
      <4>1. k \in 0..Len(ledger) - mark.daily
        BY <1>10 DEF Runs
      <4> QED
        BY <1>10, <4>1 DEF Runs
    <3>2. Len(ledger) \in Nat
      BY DEF PaperInv, DocumentsInv
    <3>3. k = 0
      <4>1. SUFFICES ASSUME k # 0 PROVE FALSE
        OBVIOUS
      <4>2. Len(ledger) \in Len(ledger) - k + 1..Len(ledger)
        BY <3>1, <3>2, <4>1
      <4>3. ledger[Len(ledger)].pnl <= 0
        BY <3>1, <4>2
      <4> QED
        BY <1>6, <2>2, <4>3
    <3> QED
      BY <1>7, <2>2, <3>3
  <2> QED
    BY <1>7, <2>1, <2>2
<1>11. Closing' = {} /\ \A b \in Agents : pc'[b] # "gate"
  BY <1>1, LockExcludes DEF AgentFrame, Locked, Closing
<1> HIDE DEF Runs, Closing
<1> QED
  BY <1>1, <1>3, <1>8, <1>10, <1>11 DEF StreakKept

LEMMA CloseErrorKeepsStreak ==
    ASSUME StreakInv, NEW a \in Candles \cup Operators, CloseError(a)
    PROVE  StreakInv'
<1>1. UNCHANGED <<ledger, mark>> /\ lost' \cap {"account", "ledger"} # {}
  BY DEF CloseError
<1> QED
  BY <1>1, StreakFrameKeeps

(* A reset starts a new count; every other change keeps the losses.          *)
LEMMA WriteChangeKeepsStreak ==
    ASSUME PlacesInv, PaperInv, StreakInv, NEW a \in Candles \cup Operators,
           WriteChange(a), AgentFrame(a)
    PROVE  StreakInv'
<1> USE AgentsAreApart
<1>1. /\ UNCHANGED <<ledger, cold>> /\ pc[a] \in {"pause_w", "resume_w", "reset_w", "refresh_w"}
      /\ pc'[a] \in {"close", "idle"} /\ \A b \in Agents : b # a => pc'[b] = pc[b] /\ acopy'[b] = acopy[b]
  BY DEF WriteChange, Goto, PlacesInv, AgentFrame
<1>2. acopy[a] \in AccountDoc /\ Len(ledger) \in Nat
  BY <1>1 DEF PaperInv, DocumentsInv, AgentInv, Writing
<1>3. Closing' = Closing /\ \A b \in Agents : pc'[b] = "gate" => pc[b] = "gate" /\ acopy'[b] = acopy[b]
  BY <1>1 DEF Closing
<1>4. CASE pc[a] # "reset_w"
  <2>1. UNCHANGED mark
    BY <1>4 DEF WriteChange
  <2>2. ASSUME "account" \notin lost' PROVE account'.losses = account.losses
    <3>1. acopy[a] = account
      BY <1>1, <2>2 DEF WriteChange, WriteAccountRow, PaperInv, AgentInv, Writing
    <3>2. CASE account' \in {Pause(acopy[a]), Resume(acopy[a])}
      BY <1>2, <3>1, <3>2, PauseIs
    <3>3. CASE \E x \in Pnls \cup {0} : account' = RefreshUnrealized(acopy[a], x)
      <4>1. PICK x \in Pnls \cup {0} : account' = RefreshUnrealized(acopy[a], x)
        BY <3>3
      <4>2. x \in Int
        BY <4>1, PaperAssumption
      <4> QED
        BY <1>2, <3>1, <4>1, <4>2, RefreshIs
    <3> QED
      BY <1>4, <3>2, <3>3 DEF WriteChange, WriteAccountRow
  <2>3. "account" \notin lost' => StreakFrame
    BY <1>1, <1>3, <2>1, <2>2 DEF StreakFrame, AgentFrame
  <2> QED
    BY <1>1, <2>1, <2>3, StreakFrameKeeps
<1>5. CASE pc[a] = "reset_w"
  <2>1. mark' = [mark EXCEPT !.daily = Len(ledger)] /\ account' = ResetDailyState(acopy[a])
    BY <1>5 DEF WriteChange, WriteAccountRow
  <2>2. account'.losses = 0
    BY <1>2, <2>1, ResetIs
  <2>3. MarkInv' /\ mark'.daily = Len(ledger)
    BY <1>1, <1>2, <2>1 DEF StreakInv, MarkInv
  <2>4. Runs' \subseteq {0}
    BY <1>1, <1>2, <2>3 DEF Runs
  <2> SUFFICES ASSUME lost' \cap {"account", "ledger"} = {} PROVE StreakKept'
    BY <2>3 DEF StreakInv
  <2>5. StreakKept
    BY DEF StreakInv, AgentFrame
  <2>6. \A b \in Agents : pc'[b] = "gate" => acopy'[b].losses \in Nat
    <3>1. \A b \in Agents : pc[b] = "gate" => acopy[b] \in AccountDoc
      BY DEF PaperInv, AgentInv, Writing
    <3> QED
      BY <1>3, <3>1 DEF AccountDoc
  <2> HIDE DEF Runs, Closing
  <2>7. \A k \in Runs' : k = 0 /\ k <= account'.losses /\ k <= account'.losses + 1
    BY <2>2, <2>4
  <2>8. \A b \in Agents : pc'[b] = "gate" => \A k \in Runs' : k <= acopy'[b].losses
    BY <2>6, <2>7
  <2> QED
    BY <1>1, <2>5, <2>7, <2>8 DEF StreakKept
<1> QED
  BY <1>4, <1>5

LEMMA CallKeepsStreak ==
    ASSUME PlacesInv, StreakInv, NEW o \in Operators, NEW what,
           CallPaper(o, what) \/ WipePositions(o), AgentFrame(o)
    PROVE  StreakInv'
<1> USE AgentsAreApart
<1>1. UNCHANGED <<ledger, mark, cold, account>>
  BY DEF CallPaper, WipePositions, acctVars
<1>2. pc[o] \in {"idle", "wipe"} /\ pc'[o] \in {"close", "fresh"} \cup Changes
  BY DEF CallPaper, WipePositions, Goto, PlacesInv
<1>3. StreakFrame
  BY <1>1, <1>2 DEF StreakFrame, AgentFrame, Closing, Changes
<1> QED
  BY <1>1, <1>3, StreakFrameKeeps

(* The hard reset starts a new count with a new account.                     *)
LEMMA HardResetKeepsStreak ==
    ASSUME PlacesInv, PaperInv, StreakInv, NEW o \in Operators, HardReset(o), AgentFrame(o)
    PROVE  StreakInv'
<1> USE AgentsAreApart
<1>1. /\ UNCHANGED <<ledger, cold>> /\ pc[o] = "fresh" /\ pc'[o] = "idle"
      /\ account' = FreshAccount /\ mark' = [hard |-> Len(ledger), daily |-> Len(ledger)]
      /\ \A b \in Agents : b # o => pc'[b] = pc[b] /\ acopy'[b] = acopy[b]
  BY DEF HardReset, Goto, PlacesInv, AgentFrame
<1>2. Len(ledger) \in Nat
  BY DEF PaperInv, DocumentsInv
<1>3. MarkInv' /\ mark'.daily = Len(ledger)
  BY <1>1, <1>2 DEF MarkInv
<1> SUFFICES ASSUME lost' \cap {"account", "ledger"} = {} PROVE StreakKept'
  BY <1>3 DEF StreakInv
<1>4. StreakKept
  BY DEF StreakInv, AgentFrame
<1>5. Runs' \subseteq {0}
  BY <1>1, <1>2, <1>3 DEF Runs
<1>6. account'.losses = 0
  BY <1>1, FreshIs
<1>7. \A b \in Agents : pc'[b] = "gate" => acopy'[b].losses \in Nat
  <2>1. \A b \in Agents : pc[b] = "gate" => acopy[b] \in AccountDoc
    BY DEF PaperInv, AgentInv, Writing
  <2> QED
    BY <1>1, <2>1 DEF AccountDoc
<1> HIDE DEF Runs, Closing
<1>8. \A k \in Runs' : k = 0 /\ k <= account'.losses /\ k <= account'.losses + 1
  BY <1>5, <1>6
<1>9. \A b \in Agents : pc'[b] = "gate" => \A k \in Runs' : k <= acopy'[b].losses
  BY <1>7, <1>8
<1> QED
  BY <1>1, <1>4, <1>8, <1>9 DEF StreakKept

LEMMA RestartKeepsStreak ==
    ASSUME PlacesInv, StreakInv, Restart
    PROVE  StreakInv'
<1> USE AgentsAreApart
<1>1. UNCHANGED <<ledger, mark, cold, account>>
  BY DEF Restart, acctVars
<1>2. \A a \in Agents : pc'[a] \in {"done", "idle"}
  BY DEF Restart
<1>3. ASSUME lost' \cap {"account", "ledger"} = {} PROVE StreakFrame
  <2>1. Closing = {}
    BY <1>3 DEF Restart, Closing
  <2>2. lost \subseteq lost'
    BY DEF Restart
  <2> QED
    BY <1>1, <1>2, <2>1, <2>2 DEF StreakFrame, Closing
<1> QED
  BY <1>1, <1>3, StreakFrameKeeps

LEMMA PortfolioKeepsStreak ==
    ASSUME StreakInv, NEW t \in Tasks, NEW m, PortfolioMove(t, m), UNCHANGED paperVars,
           AgentFrame(t), PlacesInv
    PROVE  StreakInv'
<1> USE AgentsAreApart
<1>1. pc'[t] = m
  BY DEF PortfolioMove, Goto, PlacesInv
<1>2. StreakFrame
  BY <1>1 DEF PortfolioMove, AgentFrame, StreakFrame, PortfolioPlaces, paperVars, acctVars, Closing
<1> QED
  BY <1>2, StreakFrameKeeps DEF paperVars

LEMMA StutterKeepsStreak == ASSUME StreakInv, UNCHANGED vars PROVE StreakInv'
BY DEF StreakInv, MarkInv, StreakKept, Runs, Closing, vars, paperVars, acctVars, portfolioVars

LEMMA StreakInvInit == Init => StreakInv
<1> SUFFICES ASSUME Init PROVE StreakInv
  OBVIOUS
<1>1. ledger = <<>> /\ mark = [hard |-> 0, daily |-> 0] /\ account = FreshAccount /\ ~cold
  BY DEF Init
<1>2. Len(ledger) = 0
  BY <1>1
<1>3. MarkInv
  BY <1>1, <1>2 DEF MarkInv
<1>4. Runs \subseteq {0}
  BY <1>1, <1>2 DEF Runs
<1>5. \A a \in Agents : pc[a] = "idle"
  BY DEF Init
<1>6. account.losses = 0
  BY <1>1, FreshIs
<1> HIDE DEF Runs
<1>7. \A k \in Runs : k <= account.losses
  BY <1>4, <1>6
<1>8. StreakKept
  BY <1>1, <1>5, <1>7 DEF StreakKept, Closing
<1> QED
  BY <1>3, <1>8 DEF StreakInv

LEMMA StreakStep ==
    ASSUME PortfolioInv, PaperInv, StreakInv, [Next]_vars
    PROVE  StreakInv'
<1> USE AgentsAreApart DEF PortfolioInv
<1>1. CASE PortfolioNext /\ UNCHANGED paperVars /\ limits' = limits
  <2>1. PICK t \in Tasks, m \in PortfolioPlaces \cup {"idle", "done", "approved"} : PortfolioMove(t, m)
    BY <1>1, PortfolioMoves
  <2>2. AgentFrame(t)
    BY <1>1, <2>1, PortfolioLeavesPaper DEF PortfolioMove, PortfolioPlaces, Locked, Writing
  <2> QED
    BY <1>1, <2>1, <2>2, PortfolioKeepsStreak
<1>2. CASE limits' = limits /\ \E a \in Deliveries \cup Candles : EnsureReady(a) \/ NotReady(a) \/ Hydrate(a)
  BY <1>2, EnsureReadyKeepsPaper, NotReadyKeepsPaper, HydrateKeepsPaper, ReadyKeepsStreak
<1>3. CASE limits' = limits /\ \E d \in Deliveries : OpenRead(d) \/ OpenPosition(d) \/ DebitAccount(d) \/ OpenError(d)
  BY <1>3, OpenReadKeepsPaper, OpenPositionKeepsPaper, DebitAccountKeepsPaper, OpenErrorKeepsPaper,
     OpenReadKeepsStreak, OpenPositionKeepsStreak, DebitKeepsStreak, OpenErrorKeepsStreak
<1>4. CASE limits' = limits /\ \E c \in Candles :
              (\E s \in Symbols : HandleCandle(c, s)) \/ OnCandle(c) \/ PersistPriceUpdates(c)
  BY <1>4, HandleCandleKeepsPaper, OnCandleKeepsPaper, PersistPriceUpdatesKeepsPaper,
     CandleKeepsStreak
<1>5. CASE limits' = limits /\ \E a \in Candles \cup Operators : CloseStep(a)
  BY <1>5, AllClosedKeepsPaper, ClosePositionKeepsPaper, InsertTradeKeepsPaper,
     ReadBalanceKeepsPaper, CreditAccountKeepsPaper, ReadForChangeKeepsPaper,
     WriteChangeKeepsPaper, QuietClosesKeepStreak, ReadBalanceKeepsStreak,
     InsertTradeKeepsStreak, CreditKeepsStreak, CloseErrorKeepsStreak,
     WriteChangeKeepsStreak DEF CloseStep
<1>6. CASE limits' = limits /\ \E o \in Operators :
              \/ \E what \in {"pause", "resume", "reset", "close_all", "hard_reset"} : CallPaper(o, what)
              \/ WipePositions(o) \/ HardReset(o)
  BY <1>6, CallPaperKeepsPaper, WipePositionsKeepsPaper, HardResetKeepsPaper, CallKeepsStreak,
     HardResetKeepsStreak
<1>7. CASE Restart
  BY <1>7, RestartKeepsStreak
<1>8. CASE UNCHANGED vars
  BY <1>8, StutterKeepsStreak
<1> QED
  BY <1>1, <1>2, <1>3, <1>4, <1>5, <1>6, <1>7, <1>8 DEF Next, Step, CloseStep

(* The account has counted every losing run, but for the close under way.    *)
THEOREM StreakInvariant == Spec => []StreakInv
<1>1. PortfolioInv /\ PaperInv /\ StreakInv /\ [Next]_vars => StreakInv'
  BY StreakStep
<1> QED
  BY StreakInvInit, <1>1, PortfolioInvariant, PaperInvariant, PTL DEF Spec

(* No position is opened while the trades since the last reset end in        *)
(* limits.losses losses: the delivery decides on an account read under the   *)
(* lock, which has counted every row.  Excused are writes of the account     *)
(* from an outdated copy and closes that failed half way.                    *)
THEOREM CooldownHoldsTheorem == Spec => []CooldownHolds
<1>1. StreakInv => CooldownHolds
  BY DEF StreakInv, StreakKept, CooldownHolds
<1> QED
  BY <1>1, StreakInvariant, PTL

-----------------------------------------------------------------------------
(* The account, the positions and the ledger                                *)

OpenCost    == SumAll([p \in GetOpenPositions |-> CostOf(p)])
Earned(n)   == SumAll([i \in mark.hard + 1..n |-> ledger[i].pnl])
ClosingAt   == {"ledger", "balance", "credit"}

(* Cash adds up.  The used capital is what the open positions cost, but for  *)
(* the position just inserted, which is not reserved yet, and the one just   *)
(* closed, which is not released yet; the realized P&L is what the ledger    *)
(* says, but for the row that is not credited yet.                           *)
AccountKept ==
    /\ account.avail + account.used = StartingCapital + account.realized
    /\ (\A a \in Agents : pc[a] \notin {"debit"} \cup ClosingAt) => account.used = OpenCost
    /\ \A a \in Agents : pc[a] = "debit" => account.used + CostOf(cur[a]) = OpenCost
    /\ \A a \in Agents : pc[a] \in ClosingAt => account.used = OpenCost + CostOf(cur[a])
    /\ Closing = {} => account.realized = Earned(Len(ledger))
    /\ Closing # {} => mark.hard < Len(ledger) /\ account.realized = Earned(Len(ledger) - 1)
    /\ \A p \in GetOpenPositions : ~Sold(p)
RowsKnown  == \A i \in 1..Len(ledger) : ledger[i].pos \in Known
Excused    == {"capital", "halt"}
AccountInv == RowsKnown /\ (lost \subseteq Excused => AccountKept)

AccountFrame ==
    /\ lost \subseteq lost'
    /\ UNCHANGED <<ledger, info>> /\ mark'.hard = mark.hard
    /\ GetOpenPositions' = GetOpenPositions
    /\ account'.avail = account.avail /\ account'.used = account.used
    /\ account'.realized = account.realized
    /\ \A a \in Agents :
          /\ pc'[a] = "debit" <=> pc[a] = "debit"
          /\ pc'[a] = "ledger" <=> pc[a] = "ledger"
          /\ pc'[a] \in {"balance", "credit"} <=> pc[a] \in {"balance", "credit"}
          /\ pc[a] \in {"debit"} \cup ClosingAt => cur'[a] = cur[a]

LEMMA KnownStays ==
    ASSUME PaperInv, AccountInv, ledger' = ledger, \A p \in Known : info'[p] = info[p]
    PROVE  RowsKnown'
BY DEF AccountInv, RowsKnown, Known

LEMMA AccountFrameKeeps ==
    ASSUME PaperInv, AccountInv, UNCHANGED <<ledger, info>>,
           lost' \subseteq Excused => AccountFrame
    PROVE  AccountInv'
<1>1. RowsKnown'
  BY KnownStays
<1> SUFFICES ASSUME lost' \subseteq Excused PROVE AccountKept'
  BY <1>1 DEF AccountInv
<1>2. AccountKept
  BY DEF AccountInv, AccountFrame
<1>3. OpenCost' = OpenCost
  BY DEF OpenCost, CostOf, AccountFrame
<1>4. \A n : Earned(n)' = Earned(n)
  BY DEF Earned, AccountFrame
<1>5. Closing' = Closing
  BY DEF Closing, AccountFrame
<1>6. \A p : Sold(p)' => Sold(p)
  BY DEF Sold, Row, InFlight, AccountFrame, ClosingAt
<1>7. Earned(Len(ledger))' = Earned(Len(ledger)) /\ Earned(Len(ledger) - 1)' = Earned(Len(ledger) - 1)
  BY DEF Earned, AccountFrame
<1>8. \A a \in Agents : CostOf(cur[a])' = info[cur'[a]].cost /\ CostOf(cur[a]) = info[cur[a]].cost
  BY DEF CostOf
<1> HIDE DEF Closing, OpenCost, Earned, Sold
<1> QED
  BY <1>2, <1>3, <1>5, <1>6, <1>7, <1>8 DEF AccountKept, AccountFrame, ClosingAt, CostOf

LEMMA OpenAreKnown ==
    ASSUME PaperInv
    PROVE  /\ GetOpenPositions \subseteq Known /\ IsFiniteSet(GetOpenPositions)
           /\ \A p \in Known : CostOf(p) \in Nat
           /\ OpenCost \in Nat
<1>1. GetOpenPositions \subseteq Known
  BY NoneIsNoDocument DEF PaperInv, DocumentsInv, GetOpenPositions, Status
<1>2. IsFiniteSet(GetOpenPositions)
  <2>1. IsFiniteSet(Pids) /\ GetOpenPositions \in SUBSET Pids
    BY PaperAssumption DEF GetOpenPositions
  <2> HIDE DEF GetOpenPositions
  <2> QED
    BY <2>1, FS_Subset
<1>3. \A p \in Known : CostOf(p) \in Nat
  BY DEF Known, Info, CostOf
<1> DEFINE f == [p \in GetOpenPositions |-> CostOf(p)]
<1>4. \A p \in GetOpenPositions : f[p] \in Nat
  BY <1>1, <1>3
<1>5. OpenCost = SumOf(f, GetOpenPositions)
  BY DEF OpenCost, SumAll, SumOf
<1> HIDE DEF f
<1>6. OpenCost \in Nat
  BY <1>2, <1>4, <1>5, SumOfNatural
<1> QED
  BY <1>1, <1>2, <1>3, <1>6

(* One more position costs its capital more.                                 *)
LEMMA CostAdds ==
    ASSUME NEW S, IsFiniteSet(S), NEW e, e \notin S, NEW f, NEW h,
           DOMAIN f = S, DOMAIN h = S \cup {e},
           \A x \in S : f[x] \in Int /\ h[x] = f[x], h[e] \in Int
    PROVE  SumAll(h) = SumAll(f) + h[e] /\ SumAll(f) \in Int
<1>1. SumAll(f) = SumOf(f, S) /\ SumAll(h) = SumOf(h, S \cup {e})
  BY DEF SumAll, SumOf
<1>2. IsFiniteSet(S \cup {e}) /\ \A x \in S \cup {e} : h[x] \in Int
  BY FS_AddElement
<1>3. SumOf(h, S \cup {e}) = h[e] + SumOf(h, (S \cup {e}) \ {e})
  BY <1>2, SumOfRemove
<1>4. (S \cup {e}) \ {e} = S
  OBVIOUS
<1>5. SumOf(h, S) = SumOf(f, S)
  BY SumOfSame
<1>6. SumOf(f, S) \in Int
  BY SumOfInteger
<1>7. SumOf(h, S \cup {e}) = h[e] + SumOf(h, S)
  BY <1>3, <1>4
<1>8. h[e] + SumOf(f, S) = SumOf(f, S) + h[e]
  BY <1>6
<1> QED
  BY <1>1, <1>5, <1>6, <1>7, <1>8

LEMMA EarnedAdds ==
    ASSUME PaperInv, MarkInv, NEW n \in Nat, mark.hard <= n, n < Len(ledger)
    PROVE  Earned(n + 1) = Earned(n) + ledger[n + 1].pnl /\ Earned(n) \in Int
<1> DEFINE S == mark.hard + 1..n
           f == [i \in mark.hard + 1..n |-> ledger[i].pnl]
           h == [i \in mark.hard + 1..n + 1 |-> ledger[i].pnl]
<1>1. mark.hard \in Nat /\ Len(ledger) \in Nat /\ ledger \in Seq(TradeRow)
  BY DEF MarkInv, PaperInv, DocumentsInv
<1>2. \A i \in 1..Len(ledger) : ledger[i].pnl \in Int
  <2>1. \A i \in 1..Len(ledger) : ledger[i] \in TradeRow
    BY <1>1
  <2> QED
    BY <2>1, PaperAssumption DEF TradeRow
<1>3. IsFiniteSet(S) /\ n + 1 \notin S /\ mark.hard + 1..n + 1 = S \cup {n + 1}
  <2>1. IsFiniteSet(S)
    <3>1. mark.hard + 1 \in Int /\ n \in Int
      BY <1>1
    <3> QED
      BY <3>1, FS_Interval, Zenon
  <2>2. n + 1 \notin S /\ mark.hard + 1..n + 1 = S \cup {n + 1}
    BY <1>1
  <2> QED
    BY <2>1, <2>2
<1>4. DOMAIN f = S /\ DOMAIN h = S \cup {n + 1}
  BY <1>3
<1>5. \A x \in S : x \in 1..Len(ledger) /\ x \in mark.hard + 1..n + 1
  BY <1>1
<1>6. \A x \in S : f[x] \in Int /\ h[x] = f[x]
  BY <1>2, <1>5
<1>7. n + 1 \in 1..Len(ledger) /\ n + 1 \in mark.hard + 1..n + 1
  BY <1>1
<1>8. h[n + 1] = ledger[n + 1].pnl /\ h[n + 1] \in Int
  BY <1>2, <1>7
<1>9. Earned(n) = SumAll(f) /\ Earned(n + 1) = SumAll(h)
  BY DEF Earned
<1> HIDE DEF f, h, S
<1>10. PICK e : e = n + 1
  OBVIOUS
<1>11. IsFiniteSet(S) /\ e \notin S /\ DOMAIN f = S /\ DOMAIN h = S \cup {e} /\ h[e] \in Int
       /\ \A x \in S : f[x] \in Int /\ h[x] = f[x]
  BY <1>3, <1>4, <1>6, <1>8, <1>10
<1>12. SumAll(h) = SumAll(f) + h[e] /\ SumAll(f) \in Int
  <2>1. \A T : IsFiniteSet(T) => \A x, g, k :
           /\ x \notin T /\ DOMAIN g = T /\ DOMAIN k = T \cup {x} /\ k[x] \in Int
           /\ \A y \in T : g[y] \in Int /\ k[y] = g[y]
           => SumAll(k) = SumAll(g) + k[x] /\ SumAll(g) \in Int
    BY CostAdds
  <2> QED
    BY <1>11, <2>1
<1> QED
  BY <1>8, <1>9, <1>10, <1>12

LEMMA ReadyKeepsAccount ==
    ASSUME PlacesInv, PaperInv, AccountInv, NEW a \in Deliveries \cup Candles,
           EnsureReady(a) \/ NotReady(a) \/ Hydrate(a), AgentFrame(a)
    PROVE  AccountInv'
<1> USE AgentsAreApart
<1>1. UNCHANGED <<ledger, mark, info, account, positions>>
  BY DEF EnsureReady, NotReady, Hydrate, acctVars
<1>2. /\ pc[a] \notin {"debit", "ledger", "balance", "credit"}
      /\ pc'[a] \notin {"debit", "ledger", "balance", "credit"}
  BY DEF EnsureReady, NotReady, Hydrate, Goto, PlacesInv, Handler, Finish
<1>3. AccountFrame
  BY <1>1, <1>2 DEF AccountFrame, AgentFrame, GetOpenPositions, ClosingAt
<1> QED
  BY <1>1, <1>3, AccountFrameKeeps

LEMMA OpenReadKeepsAccount ==
    ASSUME PlacesInv, PaperInv, AccountInv, NEW d \in Deliveries, OpenRead(d), AgentFrame(d)
    PROVE  AccountInv'
<1> USE AgentsAreApart
<1>1. UNCHANGED <<ledger, mark, info, account, positions>> /\ pc[d] = "open" /\ pc'[d] = "gate"
  BY DEF OpenRead, acctVars, Goto, PlacesInv
<1>2. AccountFrame
  BY <1>1 DEF AccountFrame, AgentFrame, GetOpenPositions, ClosingAt
<1> QED
  BY <1>1, <1>2, AccountFrameKeeps

(* The new position costs what is reserved next.                             *)
LEMMA OpenPositionKeepsAccount ==
    ASSUME PlacesInv, PortfolioType, PaperInv, AccountInv, NEW d \in Deliveries,
           OpenPosition(d), AgentFrame(d)
    PROVE  AccountInv'
<1> USE AgentsAreApart
<1>1. /\ UNCHANGED <<lost, account, writes, ledger, hydrated, todo, docs, mark>>
      /\ pc[d] = "gate" /\ mlock = d
  BY OpenPositionIs
<1>2. CASE TurnedAway(d)
  <2>1. AccountFrame
    BY <1>1, <1>2 DEF TurnedAway, AccountFrame, AgentFrame, GetOpenPositions, ClosingAt, PlacesInv
  <2> QED
    BY <1>1, <1>2, <2>1, AccountFrameKeeps DEF TurnedAway
<1>3. CASE \E p \in Pids : Opened(d, p)
  <2>1. PICK p \in Pids : Opened(d, p)
    BY <1>3
  <2>2. RowsKnown'
    BY <1>1, KnownStays DEF AgentFrame
  <2> SUFFICES ASSUME lost' \subseteq Excused PROVE AccountKept'
    BY <2>2 DEF AccountInv
  <2>3. AccountKept
    BY <1>1 DEF AccountInv
  <2>4. /\ p \in Pids /\ info[p] = None /\ info'[p] \in Info
        /\ \A q \in Known : info'[q] = info[q]
        /\ p \notin Known
    BY <2>1, NoneIsNoDocument DEF Opened, AgentFrame, Known
  <2>5. GetOpenPositions' = GetOpenPositions \cup {p} /\ p \notin GetOpenPositions
    <3>1. GetOpenPositions \subseteq Known
      BY OpenAreKnown
    <3> QED
      BY <2>1, <2>4, <3>1 DEF Opened, GetOpenPositions, PaperInv, DocumentsInv
  <2>6. /\ pc'[d] = "debit" /\ cur'[d] = p
        /\ \A b \in Agents : b # d => pc'[b] = pc[b] /\ cur'[b] = cur[b] /\ pc[b] \notin Locked
    BY <1>1, <2>1, LockExcludes DEF Opened, PlacesInv, PaperInv, DocumentsInv, Locked
  <2> DEFINE S == GetOpenPositions
             f == [q \in GetOpenPositions |-> CostOf(q)]
             h == [q \in GetOpenPositions' |-> CostOf(q)']
  <2>7. IsFiniteSet(S) /\ S \subseteq Known /\ \A q \in S : f[q] \in Int
    <3>1. IsFiniteSet(S) /\ S \subseteq Known /\ \A q \in Known : CostOf(q) \in Nat
      BY OpenAreKnown
    <3> QED
      BY <3>1
  <2>8. DOMAIN f = S /\ DOMAIN h = S \cup {p} /\ p \notin S
    BY <2>5
  <2>9. \A q \in S : h[q] = f[q]
    BY <2>4, <2>5, <2>7 DEF CostOf
  <2>10. h[p] = CostOf(p)' /\ h[p] \in Int
    BY <2>4, <2>5 DEF CostOf, Info
  <2>11. OpenCost = SumAll(f) /\ OpenCost' = SumAll(h)
    BY DEF OpenCost
  <2> HIDE DEF S, f, h
  <2>12. SumAll(h) = SumAll(f) + h[p] /\ SumAll(f) \in Int
    BY <2>7, <2>8, <2>9, <2>10, CostAdds
  <2>13. account.used = OpenCost
    BY <1>1, <2>3, <2>6 DEF AccountKept, Locked, ClosingAt
  <2>14. account'.used + CostOf(p)' = OpenCost'
    BY <1>1, <2>10, <2>11, <2>12, <2>13
  <2>15. CostOf(cur[d])' = CostOf(p)'
    BY <2>6 DEF CostOf
  <2>16. Closing = {} /\ Closing' = {}
    BY <1>1, <2>6, LockExcludes DEF Closing, Locked
  <2>17. Earned(Len(ledger))' = Earned(Len(ledger))
    BY <1>1 DEF Earned
  <2>18. \A q : Sold(q)' => Sold(q)
    BY <1>1, <2>6 DEF Sold, Row, InFlight
  <2>19. ~Sold(p)
    <3>1. ~Row(p)
      BY <2>4 DEF AccountInv, RowsKnown, Row
    <3>2. ~InFlight(p)
      BY <2>4 DEF InFlight, PaperInv, AgentInv
    <3> QED
      BY <3>1, <3>2 DEF Sold
  <2>20. \A a \in Agents : pc'[a] \in {"debit"} \cup ClosingAt => a = d
    BY <2>6 DEF Locked, ClosingAt
  <2> HIDE DEF Closing, OpenCost, Earned, Sold
  <2> QED
    BY <1>1, <2>3, <2>5, <2>6, <2>14, <2>15, <2>16, <2>17, <2>18, <2>19, <2>20
    DEF AccountKept, ClosingAt
<1> QED
  BY <1>2, <1>3, OpenPositionIs

LEMMA DebitKeepsAccount ==
    ASSUME PlacesInv, PaperInv, AccountInv, NEW d \in Deliveries, DebitAccount(d), AgentFrame(d)
    PROVE  AccountInv'
<1> USE AgentsAreApart
<1>1. UNCHANGED <<ledger, info, mark, positions>> /\ pc[d] = "debit" /\ pc'[d] = "done"
  BY DEF DebitAccount, Goto, PlacesInv
<1>2. RowsKnown'
  BY <1>1, KnownStays
<1> SUFFICES ASSUME lost' \subseteq Excused PROVE AccountKept'
  BY <1>2 DEF AccountInv
<1>3. AccountKept
  BY DEF AccountInv, AgentFrame
<1>4. acopy[d] = account /\ acopy[d] \in AccountDoc
  BY <1>1 DEF DebitAccount, WriteAccountRow, PaperInv, AgentInv, Writing, Excused
<1>5. CostOf(cur[d]) \in Int
  BY <1>1 DEF PaperInv, AgentInv, Known, Info, CostOf
<1>6. /\ account'.avail = account.avail - CostOf(cur[d])
      /\ account'.used = account.used + CostOf(cur[d]) /\ account'.realized = account.realized
  <2>1. account' = ApplyEntry(acopy[d], CostOf(cur[d]))
    BY DEF DebitAccount, WriteAccountRow
  <2> QED
    BY <1>4, <1>5, <2>1, ApplyEntryIs
<1>7. account.avail \in Int /\ account.used \in Int /\ account.realized \in Int
      /\ StartingCapital \in Int
  BY <1>4, PaperAssumption DEF AccountDoc
<1>8. account.used + CostOf(cur[d]) = OpenCost
  BY <1>1, <1>3 DEF AccountKept
<1>9. \A b \in Agents : b # d => pc'[b] = pc[b] /\ cur'[b] = cur[b] /\ pc[b] \notin Locked
  BY <1>1, LockExcludes DEF AgentFrame, Locked
<1>10. Closing = {} /\ Closing' = {}
  BY <1>1, <1>9, LockExcludes DEF Closing, Locked
<1>11. OpenCost' = OpenCost /\ GetOpenPositions' = GetOpenPositions
  BY <1>1 DEF OpenCost, CostOf, GetOpenPositions
<1>12. Earned(Len(ledger))' = Earned(Len(ledger))
  BY <1>1 DEF Earned
<1>13. \A q : Sold(q)' => Sold(q)
  BY <1>1, <1>9 DEF Sold, Row, InFlight
<1>14. \A a \in Agents : pc'[a] \notin {"debit"} \cup ClosingAt
  BY <1>1, <1>9 DEF Locked, ClosingAt
<1>15. account'.avail + account'.used = StartingCapital + account'.realized
  BY <1>3, <1>5, <1>6, <1>7 DEF AccountKept
<1> HIDE DEF Closing, OpenCost, Earned, Sold
<1> QED
  BY <1>3, <1>6, <1>8, <1>10, <1>11, <1>12, <1>13, <1>14, <1>15 DEF AccountKept, ClosingAt

LEMMA OpenErrorKeepsAccount ==
    ASSUME PlacesInv, PaperInv, AccountInv, NEW d \in Deliveries, OpenError(d), AgentFrame(d)
    PROVE  AccountInv'
<1> USE AgentsAreApart
<1>1. UNCHANGED <<ledger, mark, info, account, positions>> /\ pc'[d] = "done"
      /\ pc[d] \in {"gate", "debit"} /\ (pc[d] = "debit" => "account" \in lost')
  BY DEF OpenError, acctVars, Goto, PlacesInv
<1>2. lost' \subseteq Excused => AccountFrame
  BY <1>1 DEF AccountFrame, AgentFrame, GetOpenPositions, ClosingAt, Excused
<1> QED
  BY <1>1, <1>2, AccountFrameKeeps

LEMMA CandleKeepsAccount ==
    ASSUME PlacesInv, PaperInv, AccountInv, NEW c \in Candles,
           (\E s \in Symbols : HandleCandle(c, s)) \/ OnCandle(c), AgentFrame(c)
    PROVE  AccountInv'
<1> USE AgentsAreApart
<1>1. UNCHANGED <<ledger, mark, info, account, positions>>
  BY DEF HandleCandle, OnCandle, acctVars
<1>2. pc[c] \in {"idle", "mark"} /\ pc'[c] \in {"candle", "persist", "idle"}
  BY DEF HandleCandle, OnCandle, Goto, PlacesInv
<1>3. AccountFrame
  BY <1>1, <1>2 DEF AccountFrame, AgentFrame, GetOpenPositions, ClosingAt
<1> QED
  BY <1>1, <1>3, AccountFrameKeeps

(* A price update closes no open position and reopens no closed one.         *)
LEMMA PersistKeepsAccount ==
    ASSUME PlacesInv, PaperInv, BookInv, AccountInv, NEW c \in Candles, PersistPriceUpdates(c),
           AgentFrame(c)
    PROVE  AccountInv'
<1> USE AgentsAreApart
<1>1. UNCHANGED <<ledger, mark, info, account>>
  BY DEF PersistPriceUpdates, acctVars
<1>2. pc[c] = "persist" /\ pc'[c] \in {"close", "idle"}
  BY DEF PersistPriceUpdates, Goto, PlacesInv
<1>3. ASSUME lost' \subseteq Excused PROVE GetOpenPositions' = GetOpenPositions
  <2>1. BookKept /\ AccountKept
    BY <1>3 DEF BookInv, AccountInv, AgentFrame, Excused
  <2>2. CASE positions' = positions
    BY <2>2 DEF GetOpenPositions
  <2>3. CASE /\ positions' = [p \in Pids |-> IF p \in DOMAIN docs[c] THEN docs[c][p] ELSE positions[p]]
             /\ {p \in DOMAIN docs[c] : docs[c][p] = "OPEN" /\ positions[p] # "OPEN"} = {}
    <3>1. \A p \in DOMAIN docs[c] : docs[c][p] = "OPEN" => positions[p] = "OPEN"
      BY <2>3
    <3>2. \A p \in DOMAIN docs[c] : p \in Pids /\ positions[p] = "OPEN" => docs[c][p] = "OPEN"
      <4>1. \A p \in DOMAIN docs[c] : docs[c][p] \in Status
        BY <1>2 DEF PaperInv, AgentInv
      <4>2. \A p \in DOMAIN docs[c] : docs[c][p] = "CLOSED" => Sold(p)
        BY <1>2, <2>1 DEF BookKept
      <4>3. \A p \in Pids : positions[p] = "OPEN" => ~Sold(p)
        BY <2>1 DEF AccountKept, GetOpenPositions
      <4> HIDE DEF Sold
      <4> QED
        BY <4>1, <4>2, <4>3 DEF Status
    <3> QED
      BY <2>3, <3>1, <3>2 DEF GetOpenPositions
  <2> QED
    BY <1>3, <2>2, <2>3 DEF PersistPriceUpdates, Excused
<1>4. lost' \subseteq Excused => AccountFrame
  BY <1>1, <1>2, <1>3 DEF AccountFrame, AgentFrame, ClosingAt
<1> QED
  BY <1>1, <1>4, AccountFrameKeeps

LEMMA QuietClosesKeepAccount ==
    ASSUME PlacesInv, PaperInv, AccountInv, NEW a \in Candles \cup Operators,
           AllClosed(a) \/ ReadForChange(a) \/ ReadBalance(a), AgentFrame(a)
    PROVE  AccountInv'
<1> USE AgentsAreApart
<1>1. UNCHANGED <<ledger, mark, info, account, positions, cur>>
  BY DEF AllClosed, ReadForChange, ReadBalance, acctVars, paperVars
<1>2. \/ pc[a] = "balance" /\ pc'[a] = "credit"
      \/ /\ pc[a] \in {"close"} \cup Changes
         /\ pc'[a] \in {"refresh", "wipe", "idle", "pause_w", "resume_w", "reset_w", "refresh_w"}
  <2>1. CASE ReadForChange(a)
    BY <2>1 DEF ReadForChange, Goto, PlacesInv, Changes, WriteOf
  <2>2. CASE AllClosed(a) \/ ReadBalance(a)
    BY <2>2 DEF AllClosed, ReadBalance, Goto, PlacesInv
  <2> QED
    BY <2>1, <2>2
<1>3. AccountFrame
  BY <1>1, <1>2 DEF AccountFrame, AgentFrame, GetOpenPositions, ClosingAt, Changes
<1> QED
  BY <1>1, <1>3, AccountFrameKeeps

LEMMA CallKeepsAccount ==
    ASSUME PlacesInv, PaperInv, AccountInv, NEW o \in Operators, NEW what,
           CallPaper(o, what), AgentFrame(o)
    PROVE  AccountInv'
<1> USE AgentsAreApart
<1>1. UNCHANGED <<ledger, mark, info, account, positions, cur>>
  BY DEF CallPaper, acctVars
<1>2. pc[o] = "idle" /\ pc'[o] \in {"close"} \cup Changes
  BY DEF CallPaper, Goto, PlacesInv
<1>3. AccountFrame
  BY <1>1, <1>2 DEF AccountFrame, AgentFrame, GetOpenPositions, ClosingAt, Changes
<1> QED
  BY <1>1, <1>3, AccountFrameKeeps

(* What changes the account outside the lock leaves capital and realized P&L. *)
LEMMA WriteChangeKeepsAccount ==
    ASSUME PlacesInv, PaperInv, MarkInv, AccountInv, NEW a \in Candles \cup Operators,
           WriteChange(a), AgentFrame(a)
    PROVE  AccountInv'
<1> USE AgentsAreApart
<1>1. /\ UNCHANGED <<ledger, info, positions, cur>>
      /\ pc[a] \in {"pause_w", "resume_w", "reset_w", "refresh_w"} /\ pc'[a] \in {"close", "idle"}
  BY DEF WriteChange, Goto, PlacesInv
<1>2. acopy[a] \in AccountDoc
  BY <1>1 DEF PaperInv, AgentInv, Writing
<1>3. mark'.hard = mark.hard
  BY DEF WriteChange, MarkInv
<1>4. ASSUME "account" \notin lost'
      PROVE  /\ account'.avail = account.avail /\ account'.used = account.used
             /\ account'.realized = account.realized
  <2>1. acopy[a] = account
    BY <1>1, <1>4 DEF WriteChange, WriteAccountRow, PaperInv, AgentInv, Writing
  <2>2. CASE account' \in {Pause(acopy[a]), Resume(acopy[a])}
    BY <1>2, <2>1, <2>2, PauseIs
  <2>3. CASE \E x \in Pnls \cup {0} : account' = RefreshUnrealized(acopy[a], x)
    <3>1. PICK x \in Pnls \cup {0} : account' = RefreshUnrealized(acopy[a], x)
      BY <2>3
    <3>2. x \in Int
      BY <3>1, PaperAssumption
    <3> QED
      BY <1>2, <2>1, <3>1, <3>2, RefreshIs
  <2>4. CASE account' = ResetDailyState(acopy[a])
    BY <1>2, <2>1, <2>4, ResetIs
  <2> QED
    BY <2>2, <2>3, <2>4 DEF WriteChange, WriteAccountRow
<1>5. lost' \subseteq Excused => AccountFrame
  BY <1>1, <1>3, <1>4 DEF AccountFrame, AgentFrame, GetOpenPositions, ClosingAt, Excused
<1> QED
  BY <1>1, <1>5, AccountFrameKeeps

LEMMA WipeKeepsAccount ==
    ASSUME PlacesInv, PaperInv, AccountInv, NEW o \in Operators, WipePositions(o), AgentFrame(o)
    PROVE  AccountInv'
<1> USE AgentsAreApart, NoneIsNoDocument
<1>1. UNCHANGED <<ledger, mark, info, account, cur>> /\ pc[o] = "wipe" /\ pc'[o] = "fresh"
  BY DEF WipePositions, acctVars, Goto, PlacesInv
<1>2. GetOpenPositions' = {}
  BY DEF WipePositions, GetOpenPositions, Status
<1>3. lost' \subseteq Excused => GetOpenPositions = {}
  BY DEF WipePositions, Excused
<1>4. lost' \subseteq Excused => AccountFrame
  BY <1>1, <1>2, <1>3 DEF AccountFrame, AgentFrame, ClosingAt
<1> QED
  BY <1>1, <1>4, AccountFrameKeeps

(* What is closed was open, unless two decisions close it.                   *)
LEMMA ClosePositionKeepsAccount ==
    ASSUME PlacesInv, PaperInv, BookInv, AccountInv, NEW a \in Candles \cup Operators,
           ClosePosition(a), AgentFrame(a)
    PROVE  AccountInv'
<1> USE AgentsAreApart
<1>1. UNCHANGED <<ledger, mark, info, account>> /\ mlock = None /\ pc'[a] = "ledger"
  BY DEF ClosePosition, acctVars, Goto, PlacesInv
<1>2. RowsKnown'
  BY <1>1, KnownStays
<1> SUFFICES ASSUME lost' \subseteq Excused PROVE AccountKept'
  BY <1>2 DEF AccountInv
<1>3. AccountKept /\ BookKept
  BY DEF AccountInv, BookInv, AgentFrame, Excused
<1>4. PICK p \in todo[a] : /\ cur' = [cur EXCEPT ![a] = p]
                           /\ positions' = [positions EXCEPT ![p] = "CLOSED"]
                           /\ lost' = IF \E i \in DOMAIN ledger : ledger[i].pos = p
                                      THEN lost \cup {"twice"} ELSE lost
  BY DEF ClosePosition
<1>5. p \in Known /\ p \in Pids /\ cur'[a] = p
  BY <1>4 DEF PaperInv, AgentInv, Known, DocumentsInv
<1>6. /\ \A b \in Agents : pc[b] \notin Locked
      /\ \A b \in Agents : b # a => pc'[b] = pc[b] /\ cur'[b] = cur[b] /\ pc[b] \notin Locked
  BY <1>1, LockExcludes DEF AgentFrame
<1>7. ~Sold(p)
  <2>1. ~Row(p)
    BY <1>4 DEF Row, Excused, PaperInv, DocumentsInv
  <2> QED
    BY <1>6, <2>1 DEF Sold, InFlight, Locked
<1>8. positions[p] = "OPEN"
  BY <1>3, <1>5, <1>7 DEF BookKept
<1>9. GetOpenPositions' = GetOpenPositions \ {p} /\ p \in GetOpenPositions
  BY <1>4, <1>5, <1>8 DEF GetOpenPositions, PaperInv, DocumentsInv
<1> DEFINE S == GetOpenPositions'
           f == [q \in GetOpenPositions' |-> CostOf(q)']
           h == [q \in GetOpenPositions |-> CostOf(q)]
<1>10. /\ IsFiniteSet(S) /\ p \notin S /\ DOMAIN f = S /\ DOMAIN h = S \cup {p}
       /\ \A q \in S : f[q] \in Int /\ h[q] = f[q]
       /\ h[p] = CostOf(p) /\ h[p] \in Int
  <2>1. IsFiniteSet(GetOpenPositions) /\ GetOpenPositions \subseteq Known
        /\ \A q \in Known : CostOf(q) \in Nat
    BY OpenAreKnown
  <2>2. IsFiniteSet(S) /\ S \subseteq GetOpenPositions
    BY <1>9, <2>1, FS_Subset
  <2>3. \A q \in Known : CostOf(q)' = CostOf(q) /\ CostOf(q) \in Int
    BY <1>1, <2>1 DEF CostOf
  <2> QED
    BY <1>9, <2>1, <2>2, <2>3
<1>11. OpenCost = SumAll(h) /\ OpenCost' = SumAll(f)
  BY DEF OpenCost
<1> HIDE DEF S, f, h
<1>12. SumAll(h) = SumAll(f) + h[p] /\ SumAll(f) \in Int
  BY <1>10, CostAdds
<1>13. account.used = OpenCost
  BY <1>3, <1>6 DEF AccountKept, Locked, ClosingAt
<1>14. account'.used = OpenCost' + CostOf(cur[a])'
  <2>1. CostOf(cur[a])' = CostOf(p)
    BY <1>1, <1>5 DEF CostOf
  <2> QED
    BY <1>1, <1>10, <1>11, <1>12, <1>13, <2>1
<1>15. Closing = {} /\ Closing' = {}
  BY <1>1, <1>6 DEF Closing, Locked
<1>16. Earned(Len(ledger))' = Earned(Len(ledger))
  BY <1>1 DEF Earned
<1>17. \A q : Sold(q)' => Sold(q) \/ q = p
  BY <1>1, <1>5, <1>6 DEF Sold, Row, InFlight
<1>18. \A b \in Agents : pc'[b] \in {"debit"} \cup ClosingAt => b = a
  BY <1>6 DEF Locked, ClosingAt
<1> HIDE DEF Closing, OpenCost, Earned, Sold
<1> QED
  BY <1>1, <1>3, <1>9, <1>14, <1>15, <1>16, <1>17, <1>18 DEF AccountKept, ClosingAt

(* The row is in the ledger, and not yet in the account.                     *)
LEMMA InsertTradeKeepsAccount ==
    ASSUME PlacesInv, PaperInv, MarkInv, AccountInv, NEW a \in Candles \cup Operators,
           InsertTrade(a), AgentFrame(a)
    PROVE  AccountInv'
<1> USE AgentsAreApart
<1>1. PICK x \in Pnls : ledger' = Append(ledger, Trade(cur[a], x))
  BY DEF InsertTrade
<1>2. /\ Len(ledger') = Len(ledger) + 1 /\ Len(ledger) \in Nat
      /\ \A i \in 1..Len(ledger) : ledger'[i] = ledger[i]
      /\ ledger'[Len(ledger) + 1].pos = cur[a]
  BY <1>1 DEF PaperInv, DocumentsInv, Trade
<1>3. /\ UNCHANGED <<mark, info, account, positions, cur, lost>>
      /\ pc[a] = "ledger" /\ pc'[a] = "balance"
  BY DEF InsertTrade, acctVars, portfolioVars, Goto, PlacesInv
<1>4. RowsKnown'
  <2>1. cur[a] \in Known /\ Known' = Known
    BY <1>3 DEF PaperInv, AgentInv, Known
  <2>2. \A i \in 1..Len(ledger) + 1 : i \in 1..Len(ledger) \/ i = Len(ledger) + 1
    BY <1>2
  <2> HIDE DEF Known
  <2> QED
    BY <1>2, <2>1, <2>2 DEF AccountInv, RowsKnown
<1> SUFFICES ASSUME lost' \subseteq Excused PROVE AccountKept'
  BY <1>4 DEF AccountInv
<1>5. AccountKept
  BY <1>3 DEF AccountInv
<1>6. Closing = {} /\ a \in Closing'
  BY <1>3, LockExcludes DEF Closing
<1>7. \A b \in Agents : b # a => pc'[b] = pc[b] /\ pc[b] \notin Locked
  BY <1>3, LockExcludes DEF AgentFrame, Locked
<1>8. Earned(Len(ledger) - 1)' = Earned(Len(ledger))
  <2>1. mark.hard \in Nat
    BY DEF MarkInv
  <2>2. Len(ledger') - 1 = Len(ledger)
    BY <1>2
  <2>3. \A i \in mark.hard + 1..Len(ledger) : ledger'[i].pnl = ledger[i].pnl
    BY <1>2, <2>1
  <2>4. Earned(Len(ledger) - 1)' = SumAll([i \in mark.hard + 1..Len(ledger) |-> ledger'[i].pnl])
    BY <1>3, <2>2 DEF Earned
  <2> QED
    BY <2>3, <2>4 DEF Earned
<1>9. mark'.hard < Len(ledger')
  BY <1>2, <1>3 DEF MarkInv
<1>10. OpenCost' = OpenCost /\ GetOpenPositions' = GetOpenPositions
  BY <1>3 DEF OpenCost, CostOf, GetOpenPositions
<1>11. CostOf(cur[a])' = CostOf(cur[a])
  BY <1>3 DEF CostOf
<1>12. \A q : Sold(q)' => Sold(q)
  <2>1. ASSUME NEW q, Row(q)' PROVE Sold(q)
    <3>1. PICK i \in 1..Len(ledger') : ledger'[i].pos = q
      BY <2>1 DEF Row
    <3>2. CASE i \in 1..Len(ledger)
      BY <1>2, <3>1, <3>2 DEF Sold, Row
    <3>3. CASE i \notin 1..Len(ledger)
      <4>1. i = Len(ledger) + 1
        BY <1>2, <3>1, <3>3
      <4> QED
        BY <1>2, <1>3, <3>1, <4>1 DEF Sold, InFlight
    <3> QED
      BY <3>2, <3>3
  <2>2. ASSUME NEW q, InFlight(q)' PROVE Sold(q)
    BY <1>3, <1>7, <2>2 DEF InFlight, Sold
  <2> QED
    BY <2>1, <2>2 DEF Sold
<1>13. \A b \in Agents : pc'[b] \in {"debit"} \cup ClosingAt => b = a
  BY <1>7 DEF Locked, ClosingAt
<1> HIDE DEF Closing, OpenCost, Earned, Sold
<1> QED
  BY <1>3, <1>5, <1>6, <1>8, <1>9, <1>10, <1>11, <1>12, <1>13 DEF AccountKept, ClosingAt

(* The account releases the cost and books the row.                          *)
LEMMA CreditKeepsAccount ==
    ASSUME PlacesInv, PaperInv, MarkInv, AccountInv, NEW a \in Candles \cup Operators,
           CreditAccount(a), AgentFrame(a)
    PROVE  AccountInv'
<1> USE AgentsAreApart
<1>1. UNCHANGED <<ledger, mark, info, positions>> /\ pc[a] = "credit" /\ pc'[a] \in {"pause", "close"}
  BY DEF CreditAccount, Goto, PlacesInv
<1>2. RowsKnown'
  BY <1>1, KnownStays
<1> SUFFICES ASSUME lost' \subseteq Excused PROVE AccountKept'
  BY <1>2 DEF AccountInv
<1>3. AccountKept
  BY DEF AccountInv, AgentFrame
<1>4. acopy[a] = account /\ acopy[a] \in AccountDoc
  BY <1>1 DEF CreditAccount, WriteAccountRow, PaperInv, AgentInv, Writing, Excused
<1>5. cur[a] \in Known /\ CostOf(cur[a]) \in Nat /\ OpenCost \in Nat
  <2>1. cur[a] \in Known
    BY <1>1 DEF PaperInv, AgentInv
  <2> QED
    BY <2>1, OpenAreKnown
<1>6. OwnTrade(a) = ledger[Len(ledger)] /\ OwnTrade(a).pnl \in Int
  BY <1>1, OwnTradeIs, PaperAssumption DEF TradeRow
<1>7. Closing # {}
  BY <1>1 DEF Closing
<1>8. account.used = OpenCost + CostOf(cur[a])
  BY <1>1, <1>3 DEF AccountKept, ClosingAt
<1>9. account.used >= CostOf(cur[a]) /\ account.used - CostOf(cur[a]) = OpenCost
  <2> HIDE DEF OpenCost
  <2> QED
    BY <1>5, <1>8
<1>10. /\ account'.avail = account.avail + CostOf(cur[a]) + OwnTrade(a).pnl
       /\ account'.used = account.used - CostOf(cur[a])
       /\ account'.realized = account.realized + OwnTrade(a).pnl
  <2>1. account' = ApplyRealized(acopy[a], CostOf(cur[a]), OwnTrade(a).pnl)
    BY DEF CreditAccount, WriteAccountRow
  <2>2. CostOf(cur[a]) \in Int
    BY <1>5
  <2> QED
    BY <1>4, <1>6, <1>9, <2>1, <2>2, ApplyRealizedIs
<1>11. account'.realized = Earned(Len(ledger))
  <2>1. mark.hard < Len(ledger) /\ account.realized = Earned(Len(ledger) - 1)
    BY <1>3, <1>7 DEF AccountKept
  <2>2. mark.hard \in Nat /\ Len(ledger) \in Nat
    BY DEF MarkInv, PaperInv, DocumentsInv
  <2>3. PICK n \in Nat : n = Len(ledger) - 1
    BY <2>1, <2>2
  <2>4. n \in Nat /\ mark.hard <= n /\ n < Len(ledger) /\ n + 1 = Len(ledger)
    BY <2>1, <2>2, <2>3
  <2>5. Earned(n + 1) = Earned(n) + ledger[n + 1].pnl
    BY <2>4, EarnedAdds
  <2> HIDE DEF Earned
  <2>6. Earned(Len(ledger)) = Earned(Len(ledger) - 1) + ledger[Len(ledger)].pnl
    BY <2>3, <2>4, <2>5
  <2> QED
    BY <1>6, <1>10, <2>1, <2>6
<1>12. \A b \in Agents : b # a => pc'[b] = pc[b] /\ cur'[b] = cur[b] /\ pc[b] \notin Locked
  BY <1>1, LockExcludes DEF AgentFrame, Locked
<1>13. Closing' = {} /\ \A b \in Agents : pc'[b] \notin {"debit"} \cup ClosingAt
  BY <1>1, <1>12 DEF Closing, Locked, ClosingAt
<1>14. OpenCost' = OpenCost /\ GetOpenPositions' = GetOpenPositions
  BY <1>1 DEF OpenCost, CostOf, GetOpenPositions
<1>15. Earned(Len(ledger))' = Earned(Len(ledger))
  BY <1>1 DEF Earned
<1>16. \A q : Sold(q)' => Sold(q)
  BY <1>1, <1>12 DEF Sold, Row, InFlight
<1>17. account'.avail + account'.used = StartingCapital + account'.realized
  <2>1. account.avail + account.used = StartingCapital + account.realized
    BY <1>3 DEF AccountKept
  <2>2. account.avail \in Int /\ account.used \in Int /\ account.realized \in Int
        /\ StartingCapital \in Int
    BY <1>4, PaperAssumption DEF AccountDoc
  <2>3. CostOf(cur[a]) \in Int /\ OwnTrade(a).pnl \in Int
    BY <1>5, <1>6
  <2> QED
    BY <1>10, <2>1, <2>2, <2>3
<1> HIDE DEF Closing, OpenCost, Earned, Sold
<1> QED
  BY <1>3, <1>9, <1>10, <1>11, <1>13, <1>14, <1>15, <1>16, <1>17 DEF AccountKept, ClosingAt

LEMMA CloseErrorKeepsAccount ==
    ASSUME PaperInv, AccountInv, NEW a \in Candles \cup Operators, CloseError(a)
    PROVE  AccountInv'
<1>1. UNCHANGED <<ledger, info>> /\ ~(lost' \subseteq Excused)
  BY DEF CloseError, Excused
<1> QED
  BY <1>1, AccountFrameKeeps

(* The account starts anew, with nothing open and nothing earned.            *)
LEMMA HardResetKeepsAccount ==
    ASSUME PlacesInv, PaperInv, AccountInv, NEW o \in Operators, HardReset(o), AgentFrame(o)
    PROVE  AccountInv'
<1> USE AgentsAreApart
<1>1. /\ UNCHANGED <<ledger, info, positions>> /\ pc'[o] = "idle" /\ account' = FreshAccount
      /\ mark'.hard = Len(ledger)
  BY DEF HardReset, Goto, PlacesInv
<1>2. RowsKnown'
  BY <1>1, KnownStays
<1> SUFFICES ASSUME lost' \subseteq Excused PROVE AccountKept'
  BY <1>2 DEF AccountInv
<1>3. GetOpenPositions = {} /\ mlock = None
  BY DEF HardReset, Excused
<1>4. \A b \in Agents : pc'[b] \notin Locked
  BY <1>1, <1>3, LockExcludes DEF AgentFrame, Locked
<1>5. Closing' = {} /\ \A b \in Agents : pc'[b] \notin {"debit"} \cup ClosingAt
  BY <1>4 DEF Closing, Locked, ClosingAt
<1>6. GetOpenPositions' = {}
  BY <1>1, <1>3 DEF GetOpenPositions
<1>7. OpenCost' = 0
  <2> DEFINE f == [p \in GetOpenPositions' |-> CostOf(p)']
  <2>1. DOMAIN f = {} /\ OpenCost' = SumAll(f)
    BY <1>6 DEF OpenCost
  <2>2. SumAll(f) = SumOf(f, {})
    BY <2>1 DEF SumAll, SumOf
  <2> HIDE DEF f
  <2> QED
    BY <2>1, <2>2, SumOfEmpty
<1>8. Earned(Len(ledger))' = 0
  <2> DEFINE f == [i \in mark'.hard + 1..Len(ledger') |-> ledger'[i].pnl]
  <2>1. mark'.hard + 1..Len(ledger') = {}
    BY <1>1 DEF PaperInv, DocumentsInv
  <2>2. DOMAIN f = {} /\ Earned(Len(ledger))' = SumAll(f)
    BY <2>1 DEF Earned
  <2>3. SumAll(f) = SumOf(f, {})
    BY <2>2 DEF SumAll, SumOf
  <2> HIDE DEF f
  <2> QED
    BY <2>2, <2>3, SumOfEmpty
<1>9. account'.avail + account'.used = StartingCapital + account'.realized
  <2>1. StartingCapital \in Int
    BY PaperAssumption
  <2> QED
    BY <1>1, <2>1, FreshIs
<1> HIDE DEF Closing, OpenCost, Earned, Sold
<1> QED
  BY <1>1, <1>5, <1>6, <1>7, <1>8, <1>9, FreshIs DEF AccountKept, ClosingAt

LEMMA RestartKeepsAccount ==
    ASSUME PlacesInv, PaperInv, AccountInv, Restart
    PROVE  AccountInv'
<1> USE AgentsAreApart
<1>1. UNCHANGED <<ledger, mark, info, account, positions>> /\ lost \subseteq lost'
  BY DEF Restart, acctVars
<1>2. \A a \in Agents : pc'[a] \in {"done", "idle"}
  BY DEF Restart
<1>3. ASSUME lost' \subseteq Excused PROVE \A a \in Agents : pc[a] \notin {"debit"} \cup ClosingAt
  <2>1. SUFFICES ASSUME NEW a \in Agents, pc[a] \in {"debit", "ledger", "balance", "credit"}
                 PROVE  FALSE
    BY DEF ClosingAt
  <2>2. (IF pc[a] = "ledger" THEN "ledger" ELSE "account") \in lost'
    BY <2>1 DEF Restart
  <2> QED
    BY <1>3, <2>2 DEF Excused
<1>4. GetOpenPositions' = GetOpenPositions
  BY <1>1 DEF GetOpenPositions
<1>5. ASSUME lost' \subseteq Excused PROVE AccountFrame
  <2>1. \A a \in Agents :
           /\ pc'[a] = "debit" <=> pc[a] = "debit"
           /\ pc'[a] = "ledger" <=> pc[a] = "ledger"
           /\ pc'[a] \in {"balance", "credit"} <=> pc[a] \in {"balance", "credit"}
           /\ pc[a] \in {"debit"} \cup ClosingAt => cur'[a] = cur[a]
    BY <1>2, <1>3, <1>5 DEF ClosingAt
  <2> QED
    BY <1>1, <1>4, <2>1 DEF AccountFrame
<1> QED
  BY <1>1, <1>5, AccountFrameKeeps

LEMMA PortfolioKeepsAccount ==
    ASSUME PaperInv, AccountInv, NEW t \in Tasks, NEW m, PortfolioMove(t, m), UNCHANGED paperVars,
           AgentFrame(t), PlacesInv
    PROVE  AccountInv'
<1> USE AgentsAreApart
<1>1. pc'[t] = m
  BY DEF PortfolioMove, Goto, PlacesInv
<1>2. UNCHANGED <<ledger, mark, info, account, positions, cur>>
  BY DEF paperVars, acctVars
<1>3. AccountFrame
  BY <1>1, <1>2 DEF PortfolioMove, AgentFrame, AccountFrame, PortfolioPlaces, GetOpenPositions,
     ClosingAt
<1> QED
  BY <1>2, <1>3, AccountFrameKeeps

LEMMA StutterKeepsAccount == ASSUME PaperInv, AccountInv, UNCHANGED vars PROVE AccountInv'
<1>1. UNCHANGED <<ledger, mark, info, account, positions, cur, pc, lost>>
  BY DEF vars, paperVars, acctVars, portfolioVars
<1>2. AccountFrame
  BY <1>1 DEF AccountFrame, GetOpenPositions
<1> QED
  BY <1>1, <1>2, AccountFrameKeeps

LEMMA AccountInvInit == Init => AccountInv
<1> USE NoneIsNoDocument
<1> SUFFICES ASSUME Init PROVE AccountInv
  OBVIOUS
<1>1. ledger = <<>> /\ mark = [hard |-> 0, daily |-> 0] /\ account = FreshAccount
  BY DEF Init
<1>2. Len(ledger) = 0
  BY <1>1
<1>3. RowsKnown
  BY <1>2 DEF RowsKnown
<1>4. \A a \in Agents : pc[a] \notin {"debit"} \cup ClosingAt
  BY DEF Init, ClosingAt
<1>5. Closing = {}
  BY <1>4 DEF Closing, ClosingAt
<1>6. GetOpenPositions = {}
  BY DEF Init, GetOpenPositions, Status
<1>7. OpenCost = 0
  <2> DEFINE f == [p \in GetOpenPositions |-> CostOf(p)]
  <2>1. DOMAIN f = {} /\ OpenCost = SumAll(f)
    BY <1>6 DEF OpenCost
  <2>2. SumAll(f) = SumOf(f, {})
    BY <2>1 DEF SumAll, SumOf
  <2> HIDE DEF f
  <2> QED
    BY <2>1, <2>2, SumOfEmpty
<1>8. Earned(Len(ledger)) = 0
  <2> DEFINE f == [i \in mark.hard + 1..Len(ledger) |-> ledger[i].pnl]
  <2>1. mark.hard + 1..Len(ledger) = {}
    BY <1>1, <1>2
  <2>2. DOMAIN f = {} /\ Earned(Len(ledger)) = SumAll(f)
    BY <2>1 DEF Earned
  <2>3. SumAll(f) = SumOf(f, {})
    BY <2>2 DEF SumAll, SumOf
  <2> HIDE DEF f
  <2> QED
    BY <2>2, <2>3, SumOfEmpty
<1>9. account.avail + account.used = StartingCapital + account.realized
  <2>1. StartingCapital \in Int
    BY PaperAssumption
  <2> QED
    BY <1>1, <2>1, FreshIs
<1> HIDE DEF Closing, OpenCost, Earned, Sold
<1> QED
  BY <1>1, <1>3, <1>4, <1>5, <1>6, <1>7, <1>8, <1>9, FreshIs DEF AccountInv, AccountKept

LEMMA AccountStep ==
    ASSUME PortfolioInv, PaperInv, BookInv, MarkInv, AccountInv, [Next]_vars
    PROVE  AccountInv'
<1> USE AgentsAreApart DEF PortfolioInv
<1>1. CASE PortfolioNext /\ UNCHANGED paperVars /\ limits' = limits
  <2>1. PICK t \in Tasks, m \in PortfolioPlaces \cup {"idle", "done", "approved"} : PortfolioMove(t, m)
    BY <1>1, PortfolioMoves
  <2>2. AgentFrame(t)
    BY <1>1, <2>1, PortfolioLeavesPaper DEF PortfolioMove, PortfolioPlaces, Locked, Writing
  <2> QED
    BY <1>1, <2>1, <2>2, PortfolioKeepsAccount
<1>2. CASE limits' = limits /\ \E a \in Deliveries \cup Candles : EnsureReady(a) \/ NotReady(a) \/ Hydrate(a)
  BY <1>2, EnsureReadyKeepsPaper, NotReadyKeepsPaper, HydrateKeepsPaper, ReadyKeepsAccount
<1>3. CASE limits' = limits /\ \E d \in Deliveries : OpenRead(d) \/ OpenPosition(d) \/ DebitAccount(d) \/ OpenError(d)
  BY <1>3, OpenReadKeepsPaper, OpenPositionKeepsPaper, DebitAccountKeepsPaper, OpenErrorKeepsPaper,
     OpenReadKeepsAccount, OpenPositionKeepsAccount, DebitKeepsAccount, OpenErrorKeepsAccount
<1>4. CASE limits' = limits /\ \E c \in Candles :
              (\E s \in Symbols : HandleCandle(c, s)) \/ OnCandle(c) \/ PersistPriceUpdates(c)
  BY <1>4, HandleCandleKeepsPaper, OnCandleKeepsPaper, PersistPriceUpdatesKeepsPaper,
     CandleKeepsAccount, PersistKeepsAccount
<1>5. CASE limits' = limits /\ \E a \in Candles \cup Operators : CloseStep(a)
  BY <1>5, AllClosedKeepsPaper, ClosePositionKeepsPaper, InsertTradeKeepsPaper,
     ReadBalanceKeepsPaper, CreditAccountKeepsPaper, ReadForChangeKeepsPaper,
     WriteChangeKeepsPaper, QuietClosesKeepAccount, ClosePositionKeepsAccount,
     InsertTradeKeepsAccount, CreditKeepsAccount, CloseErrorKeepsAccount,
     WriteChangeKeepsAccount DEF CloseStep
<1>6. CASE limits' = limits /\ \E o \in Operators :
              \/ \E what \in {"pause", "resume", "reset", "close_all", "hard_reset"} : CallPaper(o, what)
              \/ WipePositions(o) \/ HardReset(o)
  BY <1>6, CallPaperKeepsPaper, WipePositionsKeepsPaper, HardResetKeepsPaper, CallKeepsAccount,
     WipeKeepsAccount, HardResetKeepsAccount
<1>7. CASE Restart
  BY <1>7, RestartKeepsAccount
<1>8. CASE UNCHANGED vars
  BY <1>8, StutterKeepsAccount
<1> QED
  BY <1>1, <1>2, <1>3, <1>4, <1>5, <1>6, <1>7, <1>8 DEF Next, Step, CloseStep

(* Account, positions and ledger differ by exactly what the holder of the    *)
(* mutation lock has still to write.                                         *)
THEOREM AccountInvariant == Spec => []AccountInv
<1>1. StreakInv => MarkInv
  BY DEF StreakInv
<1>2. PortfolioInv /\ PaperInv /\ BookInv /\ MarkInv /\ AccountInv /\ [Next]_vars => AccountInv'
  BY AccountStep
<1> QED
  BY AccountInvInit, PortfolioInvariant, PaperInvariant, BookInvariant, StreakInvariant, <1>1, <1>2,
     PTL DEF Spec

(* Whenever nobody opens or closes a position, used capital is what the open *)
(* positions cost, realized P&L is the sum of the ledger since the last hard *)
(* reset, and cash adds up.  Excused are the races and failures named at     *)
(* AccountMatchesLedger.                                                     *)
THEOREM AccountMatchesLedgerTheorem == Spec => []AccountMatchesLedger
<1>1. PaperInv /\ AccountInv => AccountMatchesLedger
  <2> SUFFICES ASSUME PaperInv, AccountInv, mlock = None, lost \subseteq Excused
               PROVE  /\ account.used = OpenCost /\ account.realized = Earned(Len(ledger))
                      /\ account.avail + account.used = StartingCapital + account.realized
    BY DEF AccountMatchesLedger, Excused, OpenCost, Earned
  <2>1. Closing = {} /\ \A a \in Agents : pc[a] \notin {"debit"} \cup ClosingAt
    BY LockExcludes DEF Locked, ClosingAt
  <2> HIDE DEF Closing, OpenCost, Earned
  <2> QED
    BY <2>1 DEF AccountInv, AccountKept
<1> QED
  BY <1>1, PaperInvariant, AccountInvariant, PTL
=============================================================================
