------------------------ MODULE VaultFactory_proofs ------------------------
(***************************************************************************)
(* Theorems about VaultFactory, for every number of owners, impostors and  *)
(* relayers, every oracle feed and every behaviour of the fillers.         *)
(*                                                                         *)
(* `swap` trusts a contract in its middle.  The inductive invariant        *)
(* therefore relates the ledger of a pending call to the one that a trap   *)
(* restores: Grown says how the two may differ at a vault, Pending what    *)
(* the swap has still in hand, and Priced that the floor was computed from *)
(* the prices in force.  The last two hold of swaps for the real tokens at *)
(* the prices of the feed, and the genuine factory asks for no others.     *)
(***************************************************************************)
EXTENDS VaultFactory, TLAPS

FactoryRecord == [admin : Admins, config : VaultConfig,
                  discount : VaultInputs.discount \cup {NoDiscount},
                  relayers : SUBSET Relayers]

FactoryOK ==
    /\ factory \in FactoryRecord
    /\ ConfigUsable(factory.config) /\ Verified
    /\ factory.discount # NoDiscount => factory.discount <= DISCOUNT_CAP_PPM

(* OnlyToOwner and FillHonoured of one vault, in any ledger.               *)
Balanced(l, v) ==
    /\ l.usdcIn[v] = l.usdc[v] + l.sold[v] + l.usdcOut[Payee(v)]
    /\ l.xlmIn[v] = l.xlm[v] + l.xlmOut[Payee(v)]
    /\ l.xlm[v] + l.xlmOut[Payee(v)] >= l.gift[v] + l.due[v]

(* From l to m, nothing was taken from v or its owner.                     *)
Grown(l, m, v) ==
    /\ m.usdcIn[v] >= l.usdcIn[v]
    /\ m.xlmIn[v] >= l.xlmIn[v]
    /\ m.usdcOut[Payee(v)] >= l.usdcOut[Payee(v)]
    /\ m.xlmOut[Payee(v)] >= l.xlmOut[Payee(v)]

(* The vault that swaps sold the amount and paid nothing yet.              *)
Held(l, m, v, amount) ==
    /\ m.sold[v] = l.sold[v] + amount
    /\ m.due[v] = l.due[v]
    /\ m.gift[v] = l.gift[v]
    /\ m.xlmOut[Payee(v)] = l.xlmOut[Payee(v)]
    /\ m.xlm[v] >= l.xlm[v]

Priced(amount, want) ==
    /\ \A a \in OracleAsset :
          /\ feed[a] \in PriceData
          /\ feed[a].price > 0
          /\ feed[a].timestamp \in (now - MAX_PRICE_AGE_CAP) .. (now + MAX_CLOCK_SKEW)
    /\ (want + 1) * feed["XLM"].price * PPM
          > amount * feed["USDC"].price * (PPM - DISCOUNT_CAP_PPM)

Pending(c) ==
    /\ c.owner = OwnerOf(c.vault)
    /\ c.amount > 0
    /\ c.vault \in Genuine => c.canonical
    /\ c.canonical =>
          /\ c.token = XLM
          /\ c.before = c.saved.xlm[c.vault]
          /\ Priced(c.amount, c.want)
          /\ Held(c.saved, ledger, c.vault, c.amount)
    /\ \A v \in Genuine :
          /\ Balanced(c.saved, v)
          /\ Grown(c.saved, ledger, v)
          /\ v # c.vault => ledger.sold[v] = c.saved.sold[v]

VaultInv ==
    /\ FeedType /\ now \in Nat
    /\ ledger \in Ledgers
    /\ call \in Calls \cup {NoCall}
    /\ FactoryOK
    /\ \A v \in Genuine : Balanced(ledger, v)
    /\ ~Idle => Pending(call)

-----------------------------------------------------------------------------
(* Who a vault pays, from its address: no two vaults share a payee, and a  *)
(* vault that checks its identity knows its owner.                         *)

LEMMA PayeeTyped ==
    \A v \in Vaults : /\ OwnerOf(v) \in Owners
                      /\ BaseOf[OwnerOf(v)] \in Bases
                      /\ Payee(v) \in Vaults \X Bases
BY VaultAssumption DEF Vaults, OwnerOf, Payee, Bases

LEMMA GenuineVaults == Genuine \subseteq Vaults
BY DEF Genuine, Vaults, Factories

LEMMA PayeesDiffer ==
    \A v, w \in Vaults : v # w => Payee(v) # Payee(w)
BY DEF Payee

LEMMA VaultKnowsOwner ==
    \A v \in Vaults, o \in Owners, f \in Factories :
        require_this_vault(v, o, f) => o = OwnerOf(v) /\ <<v, BaseOf[o]>> = Payee(v)
BY DEF require_this_vault, deployed_address, OwnerOf, Payee

LEMMA LedgerTyped ==
    ASSUME NEW l \in Ledgers, NEW v \in Vaults
    PROVE  /\ l.usdc[v] \in Nat /\ l.xlm[v] \in Nat
           /\ l.usdcIn[v] \in Nat /\ l.xlmIn[v] \in Nat
           /\ l.gift[v] \in Nat /\ l.sold[v] \in Nat /\ l.due[v] \in Nat
           /\ l.usdcOut[Payee(v)] \in Nat /\ l.xlmOut[Payee(v)] \in Nat
BY PayeeTyped DEF Ledgers

-----------------------------------------------------------------------------
(* What the traffic of one step does to the books of one vault.            *)

Carries(l, m, v) ==
    /\ m.sold[v] = l.sold[v] /\ m.due[v] = l.due[v]
    /\ m.usdcIn[v] >= l.usdcIn[v] /\ m.xlmIn[v] >= l.xlmIn[v]
    /\ m.usdcOut[Payee(v)] >= l.usdcOut[Payee(v)]
    /\ m.xlmOut[Payee(v)] >= l.xlmOut[Payee(v)]
    /\ m.usdc[v] + m.usdcOut[Payee(v)] - m.usdcIn[v]
          = l.usdc[v] + l.usdcOut[Payee(v)] - l.usdcIn[v]
    /\ m.xlm[v] + m.xlmOut[Payee(v)] - m.xlmIn[v]
          = l.xlm[v] + l.xlmOut[Payee(v)] - l.xlmIn[v]
    /\ m.gift[v] - l.gift[v] <= m.xlmIn[v] - l.xlmIn[v]
    /\ Running(v) => /\ m.gift[v] = l.gift[v]
                     /\ m.xlmOut[Payee(v)] = l.xlmOut[Payee(v)]
                     /\ m.xlm[v] >= l.xlm[v]

LEMMA SameBooksCarry ==
    ASSUME NEW l \in Ledgers, NEW m, NEW v \in Vaults,
           m.usdc[v] = l.usdc[v], m.xlm[v] = l.xlm[v],
           m.usdcIn[v] = l.usdcIn[v], m.xlmIn[v] = l.xlmIn[v],
           m.gift[v] = l.gift[v], m.sold[v] = l.sold[v], m.due[v] = l.due[v],
           m.usdcOut[Payee(v)] = l.usdcOut[Payee(v)],
           m.xlmOut[Payee(v)] = l.xlmOut[Payee(v)]
    PROVE  Carries(l, m, v)
BY LedgerTyped DEF Carries

LEMMA WithdrawCarries ==
    ASSUME ledger \in Ledgers,
           NEW v \in Vaults, NEW o \in Owners, NEW f \in Factories,
           NEW t \in Assets, withdraw(v, o, f, t)
    PROVE  /\ ledger' \in Ledgers
           /\ \A w \in Vaults : Carries(ledger, ledger', w)
<1>1. <<v, BaseOf[o]>> = Payee(v) /\ Payee(v) \in Vaults \X Bases /\ ~Running(v)
  BY VaultKnowsOwner, PayeeTyped DEF withdraw
<1>2. CASE t = USDC
  <2>1. ledger' = [ledger EXCEPT !.usdc[v] = 0,
                                 !.usdcOut[Payee(v)] = @ + ledger.usdc[v]]
    BY <1>1, <1>2, VaultAssumption DEF withdraw, BalanceOf
  <2>2. ledger' \in Ledgers
    <3>1. /\ [ledger.usdc EXCEPT ![v] = 0] \in [Vaults -> Nat]
          /\ [ledger.usdcOut EXCEPT ![Payee(v)] = @ + ledger.usdc[v]]
                \in [Vaults \X Bases -> Nat]
      BY <1>1 DEF Ledgers
    <3> QED  BY <2>1, <3>1 DEF Ledgers
  <2>3. /\ ledger'.usdc[v] = 0
        /\ ledger'.usdcOut[Payee(v)] = ledger.usdcOut[Payee(v)] + ledger.usdc[v]
        /\ \A w \in Vaults : w # v =>
              /\ ledger'.usdc[w] = ledger.usdc[w]
              /\ ledger'.usdcOut[Payee(w)] = ledger.usdcOut[Payee(w)]
    BY <1>1, <2>1, PayeesDiffer, PayeeTyped DEF Ledgers
  <2>4. /\ ledger'.xlm = ledger.xlm /\ ledger'.usdcIn = ledger.usdcIn
        /\ ledger'.xlmIn = ledger.xlmIn /\ ledger'.gift = ledger.gift
        /\ ledger'.sold = ledger.sold /\ ledger'.due = ledger.due
        /\ ledger'.xlmOut = ledger.xlmOut
    BY <2>1 DEF Ledgers
  <2>5. Carries(ledger, ledger', v)
    BY <1>1, <2>3, <2>4, LedgerTyped DEF Carries
  <2>6. ASSUME NEW w \in Vaults, w # v
        PROVE  Carries(ledger, ledger', w)
    BY <2>3, <2>4, <2>6, SameBooksCarry
  <2> QED  BY <2>2, <2>5, <2>6
<1>3. CASE t = XLM
  <2>1. ledger' = [ledger EXCEPT !.xlm[v] = 0,
                                 !.xlmOut[Payee(v)] = @ + ledger.xlm[v]]
    BY <1>1, <1>3, VaultAssumption DEF withdraw, BalanceOf
  <2>2. ledger' \in Ledgers
    <3>1. /\ [ledger.xlm EXCEPT ![v] = 0] \in [Vaults -> Nat]
          /\ [ledger.xlmOut EXCEPT ![Payee(v)] = @ + ledger.xlm[v]]
                \in [Vaults \X Bases -> Nat]
      BY <1>1 DEF Ledgers
    <3> QED  BY <2>1, <3>1 DEF Ledgers
  <2>3. /\ ledger'.xlm[v] = 0
        /\ ledger'.xlmOut[Payee(v)] = ledger.xlmOut[Payee(v)] + ledger.xlm[v]
        /\ \A w \in Vaults : w # v =>
              /\ ledger'.xlm[w] = ledger.xlm[w]
              /\ ledger'.xlmOut[Payee(w)] = ledger.xlmOut[Payee(w)]
    BY <1>1, <2>1, PayeesDiffer, PayeeTyped DEF Ledgers
  <2>4. /\ ledger'.usdc = ledger.usdc /\ ledger'.usdcIn = ledger.usdcIn
        /\ ledger'.xlmIn = ledger.xlmIn /\ ledger'.gift = ledger.gift
        /\ ledger'.sold = ledger.sold /\ ledger'.due = ledger.due
        /\ ledger'.usdcOut = ledger.usdcOut
    BY <2>1 DEF Ledgers
  <2>5. Carries(ledger, ledger', v)
    BY <1>1, <2>3, <2>4, LedgerTyped DEF Carries
  <2>6. ASSUME NEW w \in Vaults, w # v
        PROVE  Carries(ledger, ledger', w)
    BY <2>3, <2>4, <2>6, SameBooksCarry
  <2> QED  BY <2>2, <2>5, <2>6
<1> QED  BY <1>2, <1>3 DEF Assets

LEMMA MintCarries ==
    ASSUME ledger \in Ledgers, NEW v \in Vaults, NEW a \in Nat, MintAndForward(v, a)
    PROVE  /\ ledger' \in Ledgers
           /\ \A w \in Vaults : Carries(ledger, ledger', w)
<1>1. ledger' = [ledger EXCEPT !.usdc[v] = @ + a, !.usdcIn[v] = @ + a]
  BY DEF MintAndForward
<1>2. ledger' \in Ledgers
  <2>1. /\ [ledger.usdc EXCEPT ![v] = @ + a] \in [Vaults -> Nat]
        /\ [ledger.usdcIn EXCEPT ![v] = @ + a] \in [Vaults -> Nat]
    BY DEF Ledgers
  <2> QED  BY <1>1, <2>1 DEF Ledgers
<1>3. \A w \in Vaults :
        /\ ledger'.usdc[w] = IF w = v THEN ledger.usdc[w] + a ELSE ledger.usdc[w]
        /\ ledger'.usdcIn[w] = IF w = v THEN ledger.usdcIn[w] + a ELSE ledger.usdcIn[w]
  BY <1>1 DEF Ledgers
<1>4. /\ ledger'.xlm = ledger.xlm /\ ledger'.usdcOut = ledger.usdcOut
      /\ ledger'.xlmIn = ledger.xlmIn /\ ledger'.gift = ledger.gift
      /\ ledger'.sold = ledger.sold /\ ledger'.due = ledger.due
      /\ ledger'.xlmOut = ledger.xlmOut
  BY <1>1 DEF Ledgers
<1> QED  BY <1>2, <1>3, <1>4, LedgerTyped DEF Carries

LEMMA SendCarries ==
    ASSUME ledger \in Ledgers, NEW v \in Vaults, NEW a \in Nat, SendXlm(v, a)
    PROVE  /\ ledger' \in Ledgers
           /\ \A w \in Vaults : Carries(ledger, ledger', w)
<1> DEFINE given == IF Running(v) THEN ledger.gift[v] ELSE ledger.gift[v] + a
<1>1. ledger' = [ledger EXCEPT !.xlm[v] = @ + a, !.xlmIn[v] = @ + a, !.gift[v] = given]
  BY DEF SendXlm, Ledgers
<1>2. given \in Nat
  BY LedgerTyped
<1> HIDE DEF given
<1>3. ledger' \in Ledgers
  <2>1. /\ [ledger.xlm EXCEPT ![v] = @ + a] \in [Vaults -> Nat]
        /\ [ledger.xlmIn EXCEPT ![v] = @ + a] \in [Vaults -> Nat]
        /\ [ledger.gift EXCEPT ![v] = given] \in [Vaults -> Nat]
    BY <1>2 DEF Ledgers
  <2> QED  BY <1>1, <2>1 DEF Ledgers
<1>4. \A w \in Vaults :
        /\ ledger'.xlm[w] = IF w = v THEN ledger.xlm[w] + a ELSE ledger.xlm[w]
        /\ ledger'.xlmIn[w] = IF w = v THEN ledger.xlmIn[w] + a ELSE ledger.xlmIn[w]
        /\ ledger'.gift[w] = IF w = v THEN given ELSE ledger.gift[w]
  BY <1>1 DEF Ledgers
<1>5. /\ ledger'.usdc = ledger.usdc /\ ledger'.usdcOut = ledger.usdcOut
      /\ ledger'.usdcIn = ledger.usdcIn /\ ledger'.xlmOut = ledger.xlmOut
      /\ ledger'.sold = ledger.sold /\ ledger'.due = ledger.due
  BY <1>1 DEF Ledgers
<1>6. ASSUME NEW w \in Vaults, w # v
      PROVE  Carries(ledger, ledger', w)
  BY <1>4, <1>5, <1>6, SameBooksCarry
<1>7. Carries(ledger, ledger', v)
  <2>1. CASE Running(v)
    BY <1>4, <1>5, <2>1, LedgerTyped DEF Carries, given
  <2>2. CASE ~Running(v)
    BY <1>4, <1>5, <2>2, LedgerTyped DEF Carries, given
  <2> QED  BY <2>1, <2>2
<1> QED  BY <1>3, <1>6, <1>7

LEMMA AccountsCarry ==
    ASSUME ledger \in Ledgers, NEW b \in Accounts,
           \/ create_account(b) \/ MergeAccount(b)
           \/ create_trustline(b) \/ RemoveTrustline(b)
    PROVE  /\ ledger' \in Ledgers
           /\ \A w \in Vaults : Carries(ledger, ledger', w)
<1>1. PICK A \in SUBSET Accounts, T \in SUBSET Accounts :
          ledger' = [ledger EXCEPT !.account = A, !.trust = T]
  <2> DEFINE Shape(A, T) == ledger' = [ledger EXCEPT !.account = A, !.trust = T]
  <2>1. CASE create_account(b)
    <3>1. Shape(ledger.account \cup {b}, ledger.trust)
      BY <2>1 DEF create_account, Ledgers
    <3> QED  BY <3>1 DEF Ledgers
  <2>2. CASE MergeAccount(b)
    <3>1. Shape(ledger.account \ {b}, ledger.trust)
      BY <2>2 DEF MergeAccount, Ledgers
    <3> QED  BY <3>1 DEF Ledgers
  <2>3. CASE create_trustline(b)
    <3>1. Shape(ledger.account, ledger.trust \cup {b})
      BY <2>3 DEF create_trustline, Ledgers
    <3> QED  BY <3>1 DEF Ledgers
  <2>4. CASE RemoveTrustline(b)
    <3>1. Shape(ledger.account, ledger.trust \ {b})
      BY <2>4 DEF RemoveTrustline, Ledgers
    <3> QED  BY <3>1 DEF Ledgers
  <2> QED  BY <2>1, <2>2, <2>3, <2>4
<1>2. ledger' \in Ledgers
  BY <1>1 DEF Ledgers
<1>3. /\ ledger'.usdc = ledger.usdc /\ ledger'.xlm = ledger.xlm
      /\ ledger'.usdcIn = ledger.usdcIn /\ ledger'.xlmIn = ledger.xlmIn
      /\ ledger'.gift = ledger.gift /\ ledger'.sold = ledger.sold
      /\ ledger'.due = ledger.due
      /\ ledger'.usdcOut = ledger.usdcOut /\ ledger'.xlmOut = ledger.xlmOut
  BY <1>1 DEF Ledgers
<1> QED  BY <1>2, <1>3, SameBooksCarry

LEMMA TrafficCarries ==
    ASSUME ledger \in Ledgers, Traffic
    PROVE  /\ ledger' \in Ledgers
           /\ \A w \in Vaults : Carries(ledger, ledger', w)
           /\ UNCHANGED <<feed, now, call, factory>>
<1>1. VaultInputs.usdc \subseteq Nat /\ VaultInputs.xlm \subseteq Nat
  BY FactoryAssumption
<1>2. UNCHANGED call
  BY DEF Traffic, withdraw, MintAndForward, SendXlm, create_account, MergeAccount,
         create_trustline, RemoveTrustline
<1> QED
  BY <1>1, <1>2, WithdrawCarries, MintCarries, SendCarries, AccountsCarry DEF Traffic
-----------------------------------------------------------------------------
(* The floor: rounded down, so a delivery at or above it falls short of    *)
(* the worth by less than one stroop.                                      *)

LEMMA PriceConstants ==
    /\ PPM \in Nat \ {0}
    /\ DISCOUNT_CAP_PPM \in Nat /\ DISCOUNT_CAP_PPM <= PPM
    /\ MAX_PRICE_AGE_CAP \in Nat /\ MAX_CLOCK_SKEW \in Nat
<1>1. DISCOUNT_CAP_PPM \in 0 .. PPM /\ MAX_PRICE_AGE_CAP \in Nat /\ MAX_CLOCK_SKEW \in Nat
  BY OracleAssumption
<1>2. PPM \in Nat \ {0}
  BY SMT DEF PPM
<1> QED  BY <1>1, <1>2

LEMMA DivBounds ==
    ASSUME NEW n \in Nat, NEW k \in Nat \ {0}
    PROVE  n \div k \in Nat /\ n < k * (n \div k) + k
OBVIOUS

LEMMA MulMonotone ==
    ASSUME NEW k \in Nat, NEW a \in Int, NEW b \in Int, a <= b
    PROVE  k * a <= k * b
OBVIOUS

LEMMA VaultConfigTyped ==
    ASSUME NEW cfg \in VaultConfig
    PROVE  /\ cfg.discount_ppm \in Nat /\ cfg.max_price_age \in Nat /\ cfg.min_delivery \in Int
           /\ cfg.usdc_asset \in OracleAsset /\ cfg.xlm_asset \in OracleAsset
           /\ cfg.xlm \in VaultInputs.token
BY VaultAssumption DEF VaultConfig

(* Of an accepted record.                                                  *)
Fresh(record) ==
    /\ record \in PriceData
    /\ record.price > 0
    /\ record.timestamp \in (now - MAX_PRICE_AGE_CAP) .. (now + MAX_CLOCK_SKEW)

LEMMA FloorPays ==
    ASSUME now \in Nat, NEW cfg \in VaultConfig, NEW quotes \in Quotes,
           NEW amount \in Nat \ {0}, NEW min_out \in Int, CanPrice(cfg, quotes, amount)
    PROVE  /\ Want(cfg, quotes, amount, min_out) \in Int
           /\ Fresh(quotes[cfg.xlm_asset]) /\ Fresh(quotes[cfg.usdc_asset])
           /\ (Want(cfg, quotes, amount, min_out) + 1) * quotes[cfg.xlm_asset].price * PPM
                 > amount * quotes[cfg.usdc_asset].price * (PPM - DISCOUNT_CAP_PPM)
<1> DEFINE px == quotes[cfg.xlm_asset].price
           pu == quotes[cfg.usdc_asset].price
           d == cfg.discount_ppm
           want == Want(cfg, quotes, amount, min_out)
<1>0. PPM \in Nat \ {0} /\ DISCOUNT_CAP_PPM \in Nat /\ DISCOUNT_CAP_PPM <= PPM
  BY PriceConstants
<1>1. Fresh(quotes[cfg.xlm_asset]) /\ Fresh(quotes[cfg.usdc_asset])
  <2>1. cfg.max_price_age \in 1 .. MAX_PRICE_AGE_CAP
    BY DEF CanPrice, ConfigUsable
  <2>2. ASSUME NEW a \in OracleAsset, FreshPrice(quotes[a], cfg.max_price_age)
        PROVE  Fresh(quotes[a])
    BY <2>1, <2>2, PriceConstants DEF FreshPrice, Fresh, Quotes, PriceData
  <2> QED  BY <2>2, VaultConfigTyped DEF CanPrice
<1>2. px \in Nat \ {0} /\ pu \in Nat \ {0}
  <2>1. \A r \in PriceData : r.price \in Int
    BY OracleAssumption DEF PriceData
  <2> QED  BY <1>1, <2>1 DEF Fresh
<1>3. d \in Nat /\ d <= DISCOUNT_CAP_PPM
  BY VaultConfigTyped DEF CanPrice, ConfigUsable
<1>4. want = IF min_out > (amount * pu * (PPM - d)) \div (px * PPM)
             THEN min_out ELSE (amount * pu * (PPM - d)) \div (px * PPM)
  BY DEF Want, oracle_floor, Numerator, Denominator
<1> HIDE DEF px, pu, d, want
<1>5. amount * pu \in Nat /\ PPM - d \in Nat /\ PPM - DISCOUNT_CAP_PPM \in Nat
      /\ PPM - DISCOUNT_CAP_PPM <= PPM - d
  BY <1>0, <1>2, <1>3
<1> DEFINE n == (amount * pu) * (PPM - d)
           k == px * PPM
           q == n \div k
<1>6. n \in Nat /\ k \in Nat \ {0}
  BY <1>0, <1>2, <1>5
<1>7. (amount * pu) * (PPM - DISCOUNT_CAP_PPM) <= n
  BY <1>5, MulMonotone
<1> HIDE DEF n, k
<1>8. q \in Nat /\ n < k * q + k
  BY <1>6, DivBounds
<1>9. want = IF min_out > q THEN min_out ELSE q
  BY <1>4 DEF n, k
<1> HIDE DEF q
<1>10. want \in Int /\ q + 1 <= want + 1
  BY <1>8, <1>9
<1>11. k * (q + 1) <= k * (want + 1)
  BY <1>6, <1>8, <1>10, MulMonotone
<1>12. k * (q + 1) = k * q + k
  BY <1>6, <1>8
<1>13. k * (want + 1) = (want + 1) * px * PPM
  BY <1>0, <1>2, <1>10 DEF k
<1>14. (want + 1) * px * PPM > amount * pu * (PPM - DISCOUNT_CAP_PPM)
  <2>1. (amount * pu) * (PPM - DISCOUNT_CAP_PPM) \in Int /\ k * q \in Int
        /\ k * (want + 1) \in Int
    BY <1>5, <1>6, <1>8, <1>10
  <2> QED  BY <2>1, <1>6, <1>7, <1>8, <1>11, <1>12, <1>13
<1> QED  BY <1>1, <1>10, <1>14 DEF px, pu, want

(* An oracle's answers are quotes, and the feed's own are those in force.  *)
LEMMA AnswersTyped ==
    ASSUME FeedType, NEW oracle
    PROVE  /\ Answers(oracle) \subseteq Quotes
           /\ oracle = Reflector => Answers(oracle) = {feed}
<1>1. VaultInputs.time \subseteq Nat
  BY FactoryAssumption
<1>2. [price : Price, timestamp : VaultInputs.time] \subseteq PriceData
  BY <1>1 DEF PriceData
<1>3. [OracleAsset -> [price : Price, timestamp : VaultInputs.time]] \subseteq Quotes
  BY <1>2 DEF Quotes
<1>4. CASE oracle = Reflector
  <2>1. Answers(oracle) = {feed}
    BY <1>4, VaultAssumption DEF Answers
  <2> QED  BY <1>4, <2>1 DEF FeedType
<1>5. CASE oracle \in Assets
  <2>1. oracle # Reflector
    BY <1>5, VaultAssumption
  <2>2. Answers(oracle) = {}
    BY <1>5, <2>1 DEF Answers
  <2> QED  BY <2>1, <2>2
<1>6. CASE oracle # Reflector /\ oracle \notin Assets
  BY <1>3, <1>6 DEF Answers
<1> QED  BY <1>4, <1>5, <1>6

LEMMA CanonicalPays ==
    ASSUME FeedType, now \in Nat, NEW cfg \in VaultConfig, Canonical(cfg),
           NEW amount \in Nat \ {0}, NEW min_out \in Int, CanPrice(cfg, feed, amount)
    PROVE  Priced(amount, Want(cfg, feed, amount, min_out))
<1>1. feed \in Quotes /\ cfg.xlm_asset = "XLM" /\ cfg.usdc_asset = "USDC"
  BY DEF FeedType, Canonical
<1> QED  BY <1>1, FloorPays DEF Priced, Fresh, OracleAsset

-----------------------------------------------------------------------------
(* The steps of a swap.                                                    *)

(* Deploying a vault moves no money.                                       *)
SameMoney(l, m) ==
    /\ m.usdc = l.usdc /\ m.xlm = l.xlm
    /\ m.usdcIn = l.usdcIn /\ m.xlmIn = l.xlmIn
    /\ m.gift = l.gift /\ m.sold = l.sold /\ m.due = l.due
    /\ m.usdcOut = l.usdcOut /\ m.xlmOut = l.xlmOut

LEMMA DeployTyped ==
    ASSUME ledger \in Ledgers, NEW f \in Factories, NEW o \in Owners
    PROVE  WithVault(f, o) \in Ledgers /\ SameMoney(ledger, WithVault(f, o))
<1> DEFINE D == ledger.deployed \cup {<<f, o>>}
<1>1. D \in SUBSET Vaults
  BY DEF Ledgers, Vaults
<1>2. WithVault(f, o) = [ledger EXCEPT !.deployed = D]
  BY DEF WithVault, deployed_address
<1> HIDE DEF D
<1> QED  BY <1>1, <1>2 DEF Ledgers, SameMoney

(* What the books say of one vault is the same in both ledgers.            *)
SameAt(l, m, v) ==
    /\ m.usdc[v] = l.usdc[v] /\ m.xlm[v] = l.xlm[v]
    /\ m.usdcIn[v] = l.usdcIn[v] /\ m.xlmIn[v] = l.xlmIn[v]
    /\ m.gift[v] = l.gift[v] /\ m.sold[v] = l.sold[v] /\ m.due[v] = l.due[v]
    /\ m.usdcOut[Payee(v)] = l.usdcOut[Payee(v)]
    /\ m.xlmOut[Payee(v)] = l.xlmOut[Payee(v)]

(* The transfer to the filler touches the vault that swaps and no other.   *)
LEMMA SellsEffect ==
    ASSUME NEW l \in Ledgers, NEW v \in Vaults, NEW token \in VaultInputs.token,
           NEW amount \in Nat, Sells(l, v, token, amount)
    PROVE  /\ ledger' \in Ledgers
           /\ \A w \in Vaults : w # v => SameAt(l, ledger', w)
<1>1. CASE token = USDC
  <2>1. /\ amount <= l.usdc[v]
        /\ ledger' = [l EXCEPT !.usdc[v] = @ - amount, !.sold[v] = @ + amount]
    BY <1>1, VaultAssumption DEF Sells, Assets
  <2>2. /\ [l.usdc EXCEPT ![v] = @ - amount] \in [Vaults -> Nat]
        /\ [l.sold EXCEPT ![v] = @ + amount] \in [Vaults -> Nat]
    <3>1. l.usdc[v] - amount \in Nat /\ l.sold[v] + amount \in Nat
      BY <2>1, LedgerTyped
    <3> QED  BY <3>1 DEF Ledgers
  <2>3. ledger' \in Ledgers
    BY <2>1, <2>2 DEF Ledgers
  <2>4. \A w \in Vaults : w # v => SameAt(l, ledger', w)
    BY <2>1 DEF Ledgers, SameAt
  <2> QED  BY <2>1, <2>3, <2>4
<1>2. CASE token = XLM
  <2>1. /\ amount <= l.xlm[v] /\ token # USDC
        /\ ledger' = [l EXCEPT !.xlm[v] = @ - amount]
    BY <1>2, VaultAssumption DEF Sells, Assets
  <2>2. [l.xlm EXCEPT ![v] = @ - amount] \in [Vaults -> Nat]
    <3>1. l.xlm[v] - amount \in Nat
      BY <2>1, LedgerTyped
    <3> QED  BY <3>1 DEF Ledgers
  <2>3. ledger' \in Ledgers
    BY <2>1, <2>2 DEF Ledgers
  <2>4. \A w \in Vaults : w # v => SameAt(l, ledger', w)
    BY <2>1 DEF Ledgers, SameAt
  <2> QED  BY <2>1, <2>3, <2>4
<1>3. CASE token \notin Assets
  BY <1>3 DEF Sells, Assets, SameAt
<1> QED  BY <1>1, <1>2, <1>3 DEF Assets

LEMMA SwapOpensStep ==
    ASSUME VaultInv, Idle,
           NEW l \in Ledgers, SameMoney(ledger, l),
           NEW caller, NEW v \in Vaults, NEW o \in Owners, NEW f \in Factories,
           NEW amount \in Int, NEW min_out \in Int, NEW cfg \in VaultConfig,
           SwapOpens(l, caller, v, o, f, amount, min_out, cfg),
           v \in Genuine => Canonical(cfg),
           UNCHANGED <<feed, now, factory>>
    PROVE  VaultInv' /\ ~Idle' /\ call'.saved = ledger
<1>0. PICK quotes \in Answers(cfg.oracle) :
        /\ CanPrice(cfg, quotes, amount)
        /\ Want(cfg, quotes, amount, min_out) >= cfg.min_delivery
        /\ call' = [vault |-> v, owner |-> o, amount |-> amount,
                    want |-> Want(cfg, quotes, amount, min_out),
                    before |-> BalanceOf(l, v, cfg.xlm), token |-> cfg.xlm,
                    canonical |-> Canonical(cfg), saved |-> ledger]
  BY DEF SwapOpens
<1>1. PICK want : want = Want(cfg, quotes, amount, min_out)
  OBVIOUS
<1>2. PICK before : before = BalanceOf(l, v, cfg.xlm)
  OBVIOUS
<1>3. PICK canonical \in BOOLEAN : canonical = Canonical(cfg)
  BY DEF Canonical
<1>4. call' = [vault |-> v, owner |-> o, amount |-> amount, want |-> want,
               before |-> before, token |-> cfg.xlm, canonical |-> canonical,
               saved |-> ledger]
  BY <1>0, <1>1, <1>2, <1>3
<1>5. amount \in Nat \ {0} /\ Sells(l, v, cfg.usdc, amount) /\ require_this_vault(v, o, f)
  BY DEF SwapOpens
<1>6. FeedType /\ now \in Nat /\ ledger \in Ledgers /\ quotes \in Quotes
  BY AnswersTyped DEF VaultInv
<1>7. want \in Nat
  <2>1. want \in Int /\ want >= cfg.min_delivery /\ cfg.min_delivery > 0
    BY <1>0, <1>1, <1>5, <1>6, FloorPays DEF CanPrice, ConfigUsable
  <2> QED  BY <2>1, VaultConfigTyped
<1>8. before \in Nat
  BY <1>2, LedgerTyped DEF BalanceOf
<1>9. o = OwnerOf(v)
  BY <1>5, VaultKnowsOwner
<1>10. call' \in Calls /\ call' # NoCall
  BY <1>3, <1>4, <1>5, <1>6, <1>7, <1>8, VaultConfigTyped, NoCallAssumption DEF Calls
<1>11. /\ ledger' \in Ledgers
       /\ \A w \in Vaults : w # v => SameAt(ledger, ledger', w)
  <2>1. /\ ledger' \in Ledgers
        /\ \A w \in Vaults : w # v => SameAt(l, ledger', w)
    <3>1. cfg.usdc \in VaultInputs.token /\ amount \in Nat
      BY <1>5 DEF VaultConfig
    <3> HIDE DEF SameAt, SwapOpens
    <3> QED  BY <1>5, <3>1, SellsEffect
  <2> QED  BY <2>1 DEF SameAt, SameMoney
<1>12. ASSUME Canonical(cfg)
       PROVE  /\ cfg.xlm = XLM /\ before = ledger.xlm[v]
              /\ Priced(amount, want)
              /\ amount <= ledger.usdc[v]
              /\ ledger'.usdc[v] = ledger.usdc[v] - amount
              /\ ledger'.sold[v] = ledger.sold[v] + amount
              /\ ledger'.xlm = ledger.xlm /\ ledger'.usdcIn = ledger.usdcIn
              /\ ledger'.xlmIn = ledger.xlmIn /\ ledger'.gift = ledger.gift
              /\ ledger'.due = ledger.due
              /\ ledger'.usdcOut = ledger.usdcOut /\ ledger'.xlmOut = ledger.xlmOut
  <2>1. cfg.usdc = USDC /\ cfg.xlm = XLM /\ cfg.oracle = Reflector
    BY <1>12 DEF Canonical
  <2>2. quotes = feed
    BY <1>6, <2>1, AnswersTyped
  <2>3. Priced(amount, want)
    BY <1>0, <1>1, <1>5, <1>6, <1>12, <2>2, CanonicalPays
  <2>4. before = ledger.xlm[v]
    BY <1>2, <2>1, VaultAssumption DEF BalanceOf, SameMoney
  <2>5. amount <= l.usdc[v]
        /\ ledger' = [l EXCEPT !.usdc[v] = @ - amount, !.sold[v] = @ + amount]
    BY <1>5, <2>1, VaultAssumption DEF Sells, Assets
  <2> QED  BY <2>1, <2>3, <2>4, <2>5 DEF Ledgers, SameMoney
<1>13. \A w \in Genuine : Balanced(ledger, w)
  BY DEF VaultInv
<1>14. ASSUME NEW w \in Genuine
       PROVE  Balanced(ledger', w) /\ Grown(ledger, ledger', w)
  <2>1. Balanced(ledger, w) /\ w \in Vaults
    BY <1>13, GenuineVaults
  <2>2. CASE w = v
    <3>1. Canonical(cfg)
      BY <2>2
    <3> QED  BY <1>5, <1>6, <1>12, <2>1, <2>2, <3>1, LedgerTyped DEF Balanced, Grown
  <2>3. CASE w # v
    <3>1. SameAt(ledger, ledger', w)
      BY <1>11, <2>1, <2>3
    <3> QED  BY <1>6, <2>1, <3>1, LedgerTyped DEF SameAt, Balanced, Grown
  <2> QED  BY <2>2, <2>3
<1>15. canonical => Held(ledger, ledger', v, amount)
  BY <1>3, <1>6, <1>12, LedgerTyped DEF Held
<1>16. canonical => Priced(amount, want)'
  BY <1>3, <1>12 DEF Priced
<1>17. Pending(call)'
  <2> DEFINE Settled(c) ==
        c.canonical =>
           /\ c.token = XLM
           /\ c.before = c.saved.xlm[c.vault]
           /\ Priced(c.amount, c.want)
           /\ Held(c.saved, ledger, c.vault, c.amount)
  <2>1. PICK c : c = call'
    OBVIOUS
  <2>2. /\ c.vault = v /\ c.owner = OwnerOf(v) /\ c.amount = amount
        /\ c.want = want /\ c.before = before /\ c.token = cfg.xlm
        /\ c.canonical = canonical /\ c.saved = ledger /\ amount > 0
    BY <1>4, <1>5, <1>9, <2>1
  <2>3. c.vault \in Genuine => c.canonical
    BY <1>3, <2>2
  <2>4. Settled(c)'
    <3>1. ASSUME canonical
          PROVE  /\ cfg.xlm = XLM /\ before = ledger.xlm[v]
                 /\ Priced(amount, want)' /\ Held(ledger, ledger', v, amount)
      BY <1>3, <1>12, <1>15, <1>16, <3>1
    <3> QED  BY <2>2, <3>1 DEF Priced, Held
  <2>5. \A w \in Genuine :
           /\ Balanced(c.saved, w)
           /\ Grown(c.saved, ledger', w)
           /\ w # c.vault => ledger'.sold[w] = c.saved.sold[w]
    BY <1>11, <1>13, <1>14, <2>2, GenuineVaults DEF SameAt
  <2>6. c.owner = OwnerOf(c.vault) /\ c.amount > 0
    BY <2>2
  <2>7. Pending(c)'
    BY <2>3, <2>4, <2>5, <2>6 DEF Pending, Held, Balanced, Grown
  <2> QED  BY <2>1, <2>7 DEF Pending, Priced, Held, Balanced, Grown
<1>18. FeedType' /\ now' \in Nat /\ FactoryOK'
  BY DEF VaultInv, FeedType, FactoryOK, Verified
<1> QED
  BY <1>4, <1>10, <1>11, <1>14, <1>17, <1>18 DEF VaultInv, Balanced, Idle

(* What a payment may be, by token.                                        *)
ReturnsUsdc(v, amount) ==
    ledger' = [ledger EXCEPT !.usdc[v] = 0, !.usdcOut[Payee(v)] = @ + amount]

PaysXlm(v, amount, want, accounts) ==
    ledger' = [ledger EXCEPT !.xlm[v] = 0, !.xlmOut[Payee(v)] = @ + amount,
                             !.due[v] = @ + want, !.account = accounts]

LEMMA PaysShape ==
    ASSUME ledger \in Ledgers, NEW v \in Vaults, NEW b \in Bases, <<v, b>> = Payee(v),
           NEW token, NEW amount \in Nat, Pays(v, b, token, amount)
    PROVE  \/ ReturnsUsdc(v, amount)
           \/ \E accounts \in SUBSET Accounts : PaysXlm(v, amount, call.want, accounts)
<1>1. CASE token = USDC
  <2>1. ReturnsUsdc(v, amount)
    BY <1>1, VaultAssumption DEF Pays, Assets, ReturnsUsdc
  <2> QED  BY <2>1
<1>2. CASE token # USDC
  <2>1. ledger.account \cup ({b} \ Contracts) \in SUBSET Accounts
    BY DEF Ledgers, Accounts
  <2>2. PaysXlm(v, amount, call.want, ledger.account \cup ({b} \ Contracts))
    BY <1>2 DEF Pays, PaysXlm, Ledgers
  <2> QED  BY <2>1, <2>2
<1> QED  BY <1>1, <1>2

(* Closing a swap, too, touches the vault that swaps and no other.         *)
LEMMA SwapClosesElsewhere ==
    ASSUME VaultInv, SwapCloses
    PROVE  /\ ~Idle /\ call \in Calls /\ Pending(call) /\ call' = NoCall
           /\ ledger' \in Ledgers
           /\ \A u \in Vaults : u # call.vault => SameAt(ledger, ledger', u)
<1> DEFINE v == call.vault
           b == BaseOf[call.owner]
<1>1. ~Idle /\ call \in Calls /\ Pending(call) /\ call' = NoCall /\ ledger \in Ledgers
  BY DEF VaultInv, Idle, SwapCloses
<1>2. v \in Vaults /\ call.want \in Nat /\ <<v, b>> = Payee(v) /\ b \in Bases
      /\ Payee(v) \in Vaults \X Bases
  BY <1>1, PayeeTyped DEF Calls, Pending, Payee
<1>3. PICK after \in Nat :
        Pays(v, b, call.token, after) \/ UNCHANGED ledger
  <2>1. BalanceOf(ledger, v, call.token) \in Nat
    BY <1>1, <1>2, LedgerTyped DEF BalanceOf
  <2> QED  BY <2>1 DEF SwapCloses
<1>4. \A u \in Vaults : u # v => Payee(u) # Payee(v) /\ Payee(u) \in Vaults \X Bases
  BY <1>2, PayeesDiffer, PayeeTyped
<1> HIDE DEF v
<1>5. CASE ReturnsUsdc(v, after)
  <2>1. /\ [ledger.usdc EXCEPT ![v] = 0] \in [Vaults -> Nat]
        /\ [ledger.usdcOut EXCEPT ![Payee(v)] = @ + after] \in [Vaults \X Bases -> Nat]
    BY <1>1, <1>2 DEF Ledgers
  <2>2. ledger' \in Ledgers
    BY <1>1, <1>5, <2>1 DEF Ledgers, ReturnsUsdc
  <2>3. \A u \in Vaults : u # v => SameAt(ledger, ledger', u)
    BY <1>1, <1>2, <1>4, <1>5 DEF Ledgers, SameAt, ReturnsUsdc
  <2> QED  BY <1>1, <2>2, <2>3 DEF v
<1>6. CASE \E accounts \in SUBSET Accounts : PaysXlm(v, after, call.want, accounts)
  <2>1. PICK accounts \in SUBSET Accounts : PaysXlm(v, after, call.want, accounts)
    BY <1>6
  <2>2. /\ [ledger.xlm EXCEPT ![v] = 0] \in [Vaults -> Nat]
        /\ [ledger.due EXCEPT ![v] = @ + call.want] \in [Vaults -> Nat]
        /\ [ledger.xlmOut EXCEPT ![Payee(v)] = @ + after] \in [Vaults \X Bases -> Nat]
    BY <1>1, <1>2 DEF Ledgers
  <2>3. ledger' \in Ledgers
    BY <1>1, <2>1, <2>2 DEF Ledgers, PaysXlm
  <2>4. \A u \in Vaults : u # v => SameAt(ledger, ledger', u)
    BY <1>1, <1>2, <1>4, <2>1 DEF Ledgers, SameAt, PaysXlm
  <2> QED  BY <1>1, <2>3, <2>4 DEF v
<1>7. CASE UNCHANGED ledger
  BY <1>1, <1>7 DEF SameAt, v
<1>8. \/ ReturnsUsdc(v, after)
      \/ \E accounts \in SUBSET Accounts : PaysXlm(v, after, call.want, accounts)
      \/ UNCHANGED ledger
  BY <1>1, <1>2, <1>3, PaysShape
<1> QED  BY <1>5, <1>6, <1>7, <1>8

(* What a fill that is accepted does in a swap for the real tokens: the    *)
(* owner is paid everything the vault holds, of which at least `want` came *)
(* with the fill.                                                          *)
LEMMA SwapClosesEffect ==
    ASSUME VaultInv, SwapCloses, call.canonical
    PROVE  LET v == call.vault
               w == call.want
           IN  /\ ~Idle /\ call \in Calls /\ Pending(call) /\ call' = NoCall
               /\ ledger' \in Ledgers
               /\ ledger'.xlm[v] = 0
               /\ ledger'.xlmOut[Payee(v)] = ledger.xlmOut[Payee(v)] + ledger.xlm[v]
               /\ ledger'.due[v] = ledger.due[v] + w
               /\ ledger.xlm[v] - call.before >= w
               /\ ledger'.usdc = ledger.usdc /\ ledger'.usdcOut = ledger.usdcOut
               /\ ledger'.usdcIn = ledger.usdcIn /\ ledger'.xlmIn = ledger.xlmIn
               /\ ledger'.gift = ledger.gift /\ ledger'.sold = ledger.sold
               /\ \A u \in Vaults : u # v =>
                     /\ ledger'.xlm[u] = ledger.xlm[u]
                     /\ ledger'.xlmOut[Payee(u)] = ledger.xlmOut[Payee(u)]
                     /\ ledger'.due[u] = ledger.due[u]
<1> DEFINE v == call.vault
           b == BaseOf[call.owner]
           w == call.want
           after == ledger.xlm[v]
           A == ledger.account \cup ({b} \ Contracts)
<1>1. ~Idle /\ call \in Calls /\ Pending(call) /\ call' = NoCall /\ ledger \in Ledgers
  BY DEF VaultInv, Idle, SwapCloses
<1>2. v \in Vaults /\ w \in Nat /\ <<v, b>> = Payee(v) /\ b \in Bases
      /\ Payee(v) \in Vaults \X Bases
  BY <1>1, PayeeTyped DEF Calls, Pending, Payee
<1>3. /\ after \in Nat /\ after - call.before >= w
      /\ ledger' = [ledger EXCEPT !.xlm[v] = 0, !.xlmOut[<<v, b>>] = @ + after,
                                  !.due[v] = @ + w, !.account = A]
  <2>1. call.token = XLM /\ XLM # USDC /\ XLM \in Assets
    BY <1>1, VaultAssumption DEF Pending, Assets
  <2>2. BalanceOf(ledger, v, call.token) = after
    BY <2>1 DEF BalanceOf
  <2> QED  BY <1>1, <1>2, <2>1, <2>2, LedgerTyped DEF SwapCloses, Delivered, Pays
<1>4. A \in SUBSET Accounts
  BY <1>1, <1>2 DEF Ledgers, Accounts
<1>5. ledger' = [ledger EXCEPT !.xlm[v] = 0, !.xlmOut[Payee(v)] = @ + after,
                               !.due[v] = @ + w, !.account = A]
  BY <1>2, <1>3
<1> HIDE DEF v, b, w, after, A
<1>6. ledger' \in Ledgers
  <2>1. /\ [ledger.xlm EXCEPT ![v] = 0] \in [Vaults -> Nat]
        /\ [ledger.due EXCEPT ![v] = @ + w] \in [Vaults -> Nat]
        /\ [ledger.xlmOut EXCEPT ![Payee(v)] = @ + after] \in [Vaults \X Bases -> Nat]
    BY <1>1, <1>2, <1>3 DEF Ledgers
  <2> QED  BY <1>1, <1>4, <1>5, <2>1 DEF Ledgers
<1>7. /\ ledger'.xlm[v] = 0
      /\ ledger'.xlmOut[Payee(v)] = ledger.xlmOut[Payee(v)] + after
      /\ ledger'.due[v] = ledger.due[v] + w
  BY <1>1, <1>2, <1>5 DEF Ledgers
<1>8. ASSUME NEW u \in Vaults, u # v
      PROVE  /\ ledger'.xlm[u] = ledger.xlm[u]
             /\ ledger'.xlmOut[Payee(u)] = ledger.xlmOut[Payee(u)]
             /\ ledger'.due[u] = ledger.due[u]
  <2>1. Payee(u) # Payee(v) /\ Payee(u) \in Vaults \X Bases
    BY <1>2, <1>8, PayeesDiffer, PayeeTyped
  <2> QED  BY <1>1, <1>2, <1>5, <1>8, <2>1 DEF Ledgers
<1>9. /\ ledger'.usdc = ledger.usdc /\ ledger'.usdcOut = ledger.usdcOut
      /\ ledger'.usdcIn = ledger.usdcIn /\ ledger'.xlmIn = ledger.xlmIn
      /\ ledger'.gift = ledger.gift /\ ledger'.sold = ledger.sold
  BY <1>1, <1>5 DEF Ledgers
<1> QED  BY <1>1, <1>3, <1>6, <1>7, <1>8, <1>9 DEF v, w, after

LEMMA SwapClosesStep ==
    ASSUME VaultInv, SwapCloses, UNCHANGED <<feed, now, factory>>
    PROVE  VaultInv'
<1> DEFINE v == call.vault
<1>1. /\ ledger \in Ledgers /\ ledger' \in Ledgers /\ call' = NoCall
      /\ v \in Vaults /\ call.want \in Nat /\ call.before \in Nat
      /\ call.saved \in Ledgers /\ Pending(call)
  BY SwapClosesElsewhere DEF VaultInv, Calls
<1>2. ASSUME v \in Genuine
      PROVE  Balanced(ledger', v)
  <2>1. call.canonical
    BY <1>1, <1>2 DEF Pending
  <2>2. Balanced(ledger, v) /\ Balanced(call.saved, v) /\ Held(call.saved, ledger, v, call.amount)
        /\ call.before = call.saved.xlm[v]
    BY <1>1, <1>2, <2>1 DEF VaultInv, Pending
  <2> QED
    BY <1>1, <2>1, <2>2, SwapClosesEffect, LedgerTyped DEF Balanced, Held
<1>3. ASSUME NEW u \in Genuine, u # v
      PROVE  Balanced(ledger', u)
  <2>1. Balanced(ledger, u) /\ SameAt(ledger, ledger', u)
    BY <1>3, SwapClosesElsewhere, GenuineVaults DEF VaultInv
  <2> QED  BY <2>1 DEF Balanced, SameAt
<1>4. FeedType' /\ now' \in Nat /\ FactoryOK'
  BY DEF VaultInv, FeedType, FactoryOK, Verified
<1> QED  BY <1>1, <1>2, <1>3, <1>4 DEF VaultInv, Idle, Balanced

LEMMA SwapTrapsStep ==
    ASSUME VaultInv, SwapTraps, UNCHANGED <<feed, now, factory>>
    PROVE  VaultInv' /\ call' = NoCall /\ ledger' = call.saved
<1>1. call \in Calls /\ Pending(call) /\ ledger' = call.saved /\ call' = NoCall
  BY DEF VaultInv, SwapTraps, Idle
<1>2. ledger' \in Ledgers
  BY <1>1 DEF Calls
<1>3. \A u \in Genuine : Balanced(ledger', u)
  BY <1>1 DEF Pending
<1>4. FeedType' /\ now' \in Nat /\ FactoryOK'
  BY DEF VaultInv, FeedType, FactoryOK, Verified
<1> QED  BY <1>1, <1>2, <1>3, <1>4 DEF VaultInv, Idle, Balanced

(* A filler's own calls leave the pending swap what it holds.              *)
LEMMA TrafficStep ==
    ASSUME VaultInv, Traffic
    PROVE  VaultInv'
<1>1. /\ ledger \in Ledgers /\ ledger' \in Ledgers
      /\ \A w \in Vaults : Carries(ledger, ledger', w)
      /\ UNCHANGED <<feed, now, call, factory>>
  BY TrafficCarries DEF VaultInv
<1>2. ASSUME NEW w \in Genuine
      PROVE  Balanced(ledger', w)
  <2>1. Balanced(ledger, w) /\ Carries(ledger, ledger', w) /\ w \in Vaults
    BY <1>1, GenuineVaults DEF VaultInv
  <2>2. ledger'.usdcIn[w] = ledger'.usdc[w] + ledger'.sold[w] + ledger'.usdcOut[Payee(w)]
    BY <1>1, <2>1, LedgerTyped DEF Balanced, Carries
  <2>3. ledger'.xlmIn[w] = ledger'.xlm[w] + ledger'.xlmOut[Payee(w)]
    BY <1>1, <2>1, LedgerTyped DEF Balanced, Carries
  <2>4. ledger'.xlm[w] + ledger'.xlmOut[Payee(w)] >= ledger'.gift[w] + ledger'.due[w]
    <3>1. /\ ledger.xlmIn[w] = ledger.xlm[w] + ledger.xlmOut[Payee(w)]
          /\ ledger.xlmIn[w] >= ledger.gift[w] + ledger.due[w]
          /\ ledger'.gift[w] - ledger.gift[w] <= ledger'.xlmIn[w] - ledger.xlmIn[w]
          /\ ledger'.due[w] = ledger.due[w]
      BY <1>1, <2>1, LedgerTyped DEF Balanced, Carries
    <3> QED  BY <1>1, <2>1, <2>3, <3>1, LedgerTyped
  <2> QED  BY <2>2, <2>3, <2>4 DEF Balanced
<1>3. ASSUME ~Idle
      PROVE  Pending(call)'
  <2>1. call \in Calls /\ Pending(call) /\ call.vault \in Vaults /\ Running(call.vault)
        /\ call.saved \in Ledgers /\ call.amount \in Nat
    BY <1>3 DEF VaultInv, Idle, Running, Calls
  <2>2. call.canonical =>
          /\ Held(call.saved, ledger', call.vault, call.amount)
          /\ Priced(call.amount, call.want)'
    <3>1. ASSUME call.canonical
          PROVE  Held(call.saved, ledger', call.vault, call.amount)
      <4>1. Held(call.saved, ledger, call.vault, call.amount)
            /\ Carries(ledger, ledger', call.vault)
        BY <1>1, <2>1, <3>1 DEF Pending
      <4> QED  BY <1>1, <2>1, <4>1, LedgerTyped DEF Held, Carries
    <3>2. ASSUME call.canonical
          PROVE  Priced(call.amount, call.want)'
      BY <1>1, <2>1, <3>2 DEF Pending, Priced
    <3> QED  BY <3>1, <3>2
  <2>3. ASSUME NEW w \in Genuine
        PROVE  /\ Balanced(call.saved, w) /\ Grown(call.saved, ledger', w)
               /\ w # call.vault => ledger'.sold[w] = call.saved.sold[w]
    <3>1. /\ Balanced(call.saved, w) /\ Grown(call.saved, ledger, w)
          /\ w # call.vault => ledger.sold[w] = call.saved.sold[w]
          /\ Carries(ledger, ledger', w) /\ w \in Vaults
      BY <1>1, <2>1, GenuineVaults DEF Pending
    <3>2. Grown(call.saved, ledger', w)
      BY <1>1, <2>1, <3>1, LedgerTyped DEF Grown, Carries
    <3> QED  BY <3>1, <3>2 DEF Carries
  <2> QED
    BY <1>1, <2>1, <2>2, <2>3 DEF Pending, Priced, Held, Balanced, Grown
<1>4. FeedType' /\ now' \in Nat /\ FactoryOK' /\ call' \in Calls \cup {NoCall}
      /\ (Idle' <=> Idle)
  BY <1>1 DEF VaultInv, FeedType, FactoryOK, Verified, Idle
<1> QED  BY <1>1, <1>2, <1>3, <1>4 DEF VaultInv, Balanced
-----------------------------------------------------------------------------
(* The steps between transactions.                                         *)

LEMMA DeployStep ==
    ASSUME VaultInv, NEW f \in Factories, NEW o \in Owners \cup Malformed, deploy(f, o)
    PROVE  VaultInv' /\ Idle' /\ SameMoney(ledger, ledger')
<1>1. Idle /\ o \in Owners /\ ledger' = WithVault(f, o) /\ UNCHANGED <<feed, now, call, factory>>
  BY DEF deploy, parse_owner
<1>2. ledger' \in Ledgers /\ SameMoney(ledger, ledger') /\ ledger \in Ledgers
  BY <1>1, DeployTyped DEF VaultInv
<1>3. \A v \in Genuine : Balanced(ledger', v)
  BY <1>2 DEF VaultInv, Balanced, SameMoney
<1>4. FeedType' /\ now' \in Nat /\ FactoryOK' /\ Idle'
  BY <1>1 DEF VaultInv, FeedType, FactoryOK, Verified, Idle
<1> QED  BY <1>1, <1>2, <1>3, <1>4 DEF VaultInv, Idle, Balanced

LEMMA GovernanceStep ==
    ASSUME VaultInv, Governance
    PROVE  VaultInv' /\ Idle /\ UNCHANGED <<feed, now, ledger, call>>
<1> DEFINE Quietly == Idle /\ UNCHANGED <<feed, now, ledger, call>>
<1>1. factory \in FactoryRecord /\ FactoryOK
  BY DEF VaultInv, FactoryOK
<1>2. PICK s \in Admins :
        \/ \E r \in Relayers, on \in BOOLEAN : set_relayer(s, r, on)
        \/ \E d \in VaultInputs.discount : set_discount(s, d)
        \/ \E a \in Admins : set_admin(s, a)
  BY DEF Governance
<1>3. ASSUME NEW r \in Relayers, NEW on \in BOOLEAN, set_relayer(s, r, on)
      PROVE  Quietly /\ FactoryOK'
  <2>1. PICK R \in SUBSET Relayers : factory' = [factory EXCEPT !.relayers = R]
    <3>1. CASE on
      <4>1. factory' = [factory EXCEPT !.relayers = factory.relayers \cup {r}]
        BY <1>1, <1>3, <3>1 DEF set_relayer
      <4>2. factory.relayers \cup {r} \in SUBSET Relayers
        BY <1>1 DEF FactoryRecord
      <4> QED  BY <4>1, <4>2
    <3>2. CASE ~on
      <4>1. factory' = [factory EXCEPT !.relayers = factory.relayers \ {r}]
        BY <1>1, <1>3, <3>2 DEF set_relayer
      <4>2. factory.relayers \ {r} \in SUBSET Relayers
        BY <1>1 DEF FactoryRecord
      <4> QED  BY <4>1, <4>2
    <3> QED  BY <3>1, <3>2
  <2>2. factory' \in FactoryRecord /\ factory'.config = factory.config
        /\ factory'.discount = factory.discount
    BY <1>1, <2>1 DEF FactoryRecord
  <2> QED  BY <1>1, <1>3, <2>2 DEF set_relayer, FactoryOK, Verified
<1>4. ASSUME NEW d \in VaultInputs.discount, set_discount(s, d)
      PROVE  Quietly /\ FactoryOK'
  <2>1. factory' = [factory EXCEPT !.discount = d] /\ d <= DISCOUNT_CAP_PPM
    BY <1>4 DEF set_discount
  <2>2. factory' \in FactoryRecord /\ factory'.config = factory.config
        /\ factory'.discount = d
    BY <1>1, <2>1 DEF FactoryRecord
  <2> QED  BY <1>1, <1>4, <2>1, <2>2 DEF set_discount, FactoryOK, Verified
<1>5. ASSUME NEW a \in Admins, set_admin(s, a)
      PROVE  Quietly /\ FactoryOK'
  <2>1. factory' = [factory EXCEPT !.admin = a]
    BY <1>5 DEF set_admin
  <2>2. factory' \in FactoryRecord /\ factory'.config = factory.config
        /\ factory'.discount = factory.discount
    BY <1>1, <2>1 DEF FactoryRecord
  <2> QED  BY <1>1, <1>5, <2>2 DEF set_admin, FactoryOK, Verified
<1>6. Quietly /\ FactoryOK'
  BY <1>2, <1>3, <1>4, <1>5
<1>7. FeedType' /\ now' \in Nat /\ Idle'
  BY <1>6 DEF VaultInv, FeedType, Idle
<1> QED  BY <1>6, <1>7 DEF VaultInv, Idle, Balanced

LEMMA SurroundingsStep ==
    ASSUME VaultInv, Surroundings
    PROVE  VaultInv' /\ Idle /\ UNCHANGED <<ledger, call, factory>>
<1>1. Idle /\ UNCHANGED <<ledger, call, factory>>
  BY DEF Surroundings
<1>2. FeedType' /\ now' \in Nat
  <2>1. VaultInputs.time \subseteq Nat /\ VaultInputs.price \subseteq Price
    BY FactoryAssumption
  <2>2. CASE \E a \in OracleAsset, p \in VaultInputs.price, t \in VaultInputs.time :
               Publish(a, [price |-> p, timestamp |-> t])
    <3>1. PICK a \in OracleAsset, r \in PriceData : Publish(a, r)
      BY <2>1, <2>2 DEF PriceData
    <3> QED  BY <3>1 DEF Publish, FeedType, Quotes, VaultInv
  <2>3. CASE \E t \in VaultInputs.time : now + t \in VaultInputs.time /\ t > 0 /\ Tick(t)
    BY <2>1, <2>3 DEF Tick, FeedType, VaultInv
  <2> QED  BY <2>2, <2>3 DEF Surroundings
<1>3. FactoryOK' /\ Idle'
  BY <1>1 DEF VaultInv, FactoryOK, Verified, Idle
<1> QED  BY <1>1, <1>2, <1>3 DEF VaultInv, Idle, Balanced

-----------------------------------------------------------------------------
(* The configuration a relayer's swap runs with.                           *)
LEMMA ConfigRead ==
    ASSUME FactoryOK
    PROVE  read_config \in VaultConfig /\ ConfigUsable(read_config) /\ Canonical(read_config)
<1>1. CASE factory.discount = NoDiscount
  BY <1>1 DEF FactoryOK, FactoryRecord, Verified, read_config
<1>2. CASE factory.discount # NoDiscount
  <2>1. /\ factory.discount \in VaultInputs.discount
        /\ factory.discount <= DISCOUNT_CAP_PPM
        /\ factory.config \in VaultConfig /\ ConfigUsable(factory.config)
        /\ Canonical(factory.config)
    BY <1>2 DEF FactoryOK, FactoryRecord, Verified
  <2>2. read_config = [factory.config EXCEPT !.discount_ppm = factory.discount]
    BY <1>2 DEF read_config
  <2> QED  BY <2>1, <2>2 DEF VaultConfig, ConfigUsable, Canonical
<1> QED  BY <1>1, <1>2

LEMMA SwapStep ==
    ASSUME VaultInv, NEW r \in Relayers, NEW o \in Owners \cup Malformed,
           NEW a \in VaultInputs.amount \cup {NoAmount}, NEW w \in VaultInputs.minOut,
           swap(r, o, a, w)
    PROVE  VaultInv' /\ Idle /\ ~Idle' /\ call'.saved = ledger /\ feed' = feed
<1> DEFINE l == WithVault(Factory, o)
           v == derive_address(o)
<1>1. Idle /\ o \in Owners /\ settle(o, a, w) /\ UNCHANGED <<feed, now, factory>>
  BY DEF swap, settle, parse_owner
<1>2. Factory \in Factories /\ v \in Vaults /\ ledger \in Ledgers
  BY <1>1 DEF Factories, Vaults, derive_address, deployed_address, VaultInv
<1>3. l \in Ledgers /\ SameMoney(ledger, l)
  BY <1>1, <1>2, DeployTyped
<1>4. VaultInputs.amount \subseteq Int /\ VaultInputs.minOut \subseteq Int
  BY FactoryAssumption
<1>5. BalanceOf(l, v, read_config.usdc) \in Int
  BY <1>2, <1>3, LedgerTyped DEF BalanceOf
<1>6. PICK n \in Int : SwapOpens(l, Factory, v, o, Factory, n, w, read_config)
  BY <1>1, <1>4, <1>5 DEF settle
<1>7. read_config \in VaultConfig /\ Canonical(read_config)
  BY ConfigRead DEF VaultInv
<1> HIDE DEF l, v
<1> QED
  BY <1>1, <1>2, <1>3, <1>4, <1>6, <1>7, SwapOpensStep

(* An impostor can authorize itself only, which opens its own vaults.      *)
LEMMA ForeignSwapStep ==
    ASSUME VaultInv, NEW f \in Impostors, NEW v \in Vaults, NEW o \in Owners,
           NEW g \in Factories, NEW a \in VaultInputs.amount, NEW w \in VaultInputs.minOut,
           NEW cfg \in VaultConfig, ForeignSwap(f, v, o, g, a, w, cfg)
    PROVE  VaultInv' /\ Idle /\ ~Idle' /\ call'.saved = ledger /\ feed' = feed
<1>1. Idle /\ SwapOpens(ledger, f, v, o, g, a, w, cfg) /\ UNCHANGED <<feed, now, factory>>
  BY DEF ForeignSwap
<1>2. ledger \in Ledgers /\ SameMoney(ledger, ledger)
  BY DEF VaultInv, SameMoney
<1>3. a \in Int /\ w \in Int
  BY FactoryAssumption
<1>4. v \notin Genuine
  <2>1. v = <<g, o>> /\ g = f /\ f # Factory
    BY <1>1, VaultAssumption DEF SwapOpens, require_this_vault, require_auth, deployed_address
  <2> QED  BY <2>1 DEF Genuine
<1> QED  BY <1>1, <1>2, <1>3, <1>4, SwapOpensStep

-----------------------------------------------------------------------------
LEMMA InitInv ==
    ASSUME Init
    PROVE  VaultInv
<1>1. ledger \in Ledgers /\ Idle
  BY DEF Init, VaultInit, Ledgers, Idle
<1>2. \A v \in Genuine : Balanced(ledger, v)
  BY PayeeTyped, GenuineVaults DEF Init, VaultInit, Balanced
<1>3. FeedType /\ now \in Nat
  BY DEF Init, FeedType, Quotes
<1>4. FactoryOK
  BY DEF Init, FactoryInit, FactoryOK, FactoryRecord
<1> QED  BY <1>1, <1>2, <1>3, <1>4 DEF VaultInv, Idle

LEMMA NextInv ==
    ASSUME VaultInv, [Next]_vars
    PROVE  VaultInv'
<1>1. CASE \E f \in Factories, o \in Owners \cup Malformed : deploy(f, o)
  BY <1>1, DeployStep
<1>2. CASE \E r \in Relayers, o \in Owners \cup Malformed,
              a \in VaultInputs.amount \cup {NoAmount}, w \in VaultInputs.minOut :
                  swap(r, o, a, w)
  BY <1>2, SwapStep
<1>3. CASE \E f \in Impostors, v \in Vaults, o \in Owners, g \in Factories,
              a \in VaultInputs.amount, w \in VaultInputs.minOut, cfg \in VaultConfig :
                  ForeignSwap(f, v, o, g, a, w, cfg)
  BY <1>3, ForeignSwapStep
<1>4. CASE Returns
  BY <1>4, SwapClosesStep, SwapTrapsStep DEF Returns
<1>5. CASE Traffic
  BY <1>5, TrafficStep
<1>6. CASE Governance
  BY <1>6, GovernanceStep
<1>7. CASE Surroundings
  BY <1>7, SurroundingsStep
<1>8. CASE UNCHANGED vars
  BY <1>8 DEF vars, VaultInv, FeedType, FactoryOK, Verified, Idle, Balanced, Pending, Priced, Held, Grown
<1> QED  BY <1>1, <1>2, <1>3, <1>4, <1>5, <1>6, <1>7, <1>8 DEF Next

(* In every reachable state the books of every vault of the genuine        *)
(* factory balance, and a swap in flight, theirs or an impostor's, holds   *)
(* what it took from one ledger whose books balance too.                   *)
THEOREM VaultInvariant == Spec => []VaultInv
BY InitInv, NextInv, PTL DEF Spec

(* The factory never reads a configuration its vaults would refuse         *)
(* (VaultFactory::read_config, set_discount), and the ledger stays a       *)
(* ledger: no balance is ever negative.                                    *)
THEOREM TypeCorrect == Spec => []TypeOK
<1>1. VaultInv => TypeOK
  BY ConfigRead DEF VaultInv, TypeOK, FactoryOK, FactoryRecord
<1> QED  BY <1>1, VaultInvariant, PTL

(* At the genuine factory's vaults, Vault::swap and Vault::withdraw pay    *)
(* nobody but the owner the vault's address was derived from, whatever     *)
(* fillers do and whatever impostors call.                                 *)
THEOREM MoneyStaysWithOwner == Spec => []OnlyToOwner
<1>1. VaultInv => OnlyToOwner
  BY DEF VaultInv, OnlyToOwner, Balanced
<1> QED  BY <1>1, VaultInvariant, PTL

(* At the genuine factory's vaults no fill is paid for with XLM that the   *)
(* vault held before Vault::swap called the filler, or that arrived        *)
(* outside it.                                                             *)
THEOREM FillsAreHonoured == Spec => []FillHonoured
<1>1. VaultInv => FillHonoured
  BY DEF VaultInv, FillHonoured, Balanced
<1> QED  BY <1>1, VaultInvariant, PTL

-----------------------------------------------------------------------------
(* What a closed swap paid was worth what it sold.                         *)
LEMMA ClosePaysPrice ==
    ASSUME VaultInv, SwapCloses, call.canonical
    PROVE  LET p == Payee(call.vault)
               paid == ledger'.xlmOut[p] - ledger.xlmOut[p] - call.before
           IN  (paid + 1) * feed["XLM"].price * PPM
                  > call.amount * feed["USDC"].price * (PPM - DISCOUNT_CAP_PPM)
<1> DEFINE p == Payee(call.vault)
           paid == ledger'.xlmOut[p] - ledger.xlmOut[p] - call.before
           want == call.want
           px == feed["XLM"].price
           worth == call.amount * feed["USDC"].price * (PPM - DISCOUNT_CAP_PPM)
<1>1. /\ Priced(call.amount, want) /\ want \in Nat /\ paid \in Int /\ want <= paid
      /\ call.amount \in Nat
  <2>1. call \in Calls /\ Pending(call) /\ ledger \in Ledgers /\ call.vault \in Vaults
    BY SwapClosesEffect DEF VaultInv, Calls
  <2>2. paid = ledger.xlm[call.vault] - call.before
        /\ ledger.xlm[call.vault] - call.before >= want
    BY <2>1, SwapClosesEffect, LedgerTyped DEF Calls
  <2> QED  BY <2>1, <2>2, LedgerTyped DEF Calls, Pending
<1>2. px \in Nat /\ feed["USDC"].price \in Nat /\ (want + 1) * px * PPM > worth
  <2>1. \A r \in PriceData : r.price \in Int
    BY OracleAssumption DEF PriceData
  <2> QED  BY <1>1, <2>1 DEF Priced, OracleAsset
<1>3. worth \in Int
  BY <1>1, <1>2, PriceConstants
<1> HIDE DEF paid, want, px, worth
<1>4. px * PPM \in Nat
  BY <1>2, PriceConstants
<1>5. (px * PPM) * (want + 1) <= (px * PPM) * (paid + 1)
  BY <1>1, <1>4, MulMonotone
<1>6. /\ (px * PPM) * (want + 1) = (want + 1) * px * PPM
      /\ (px * PPM) * (paid + 1) = (paid + 1) * px * PPM
      /\ (want + 1) * px * PPM \in Int /\ (paid + 1) * px * PPM \in Int
  BY <1>1, <1>2, PriceConstants
<1>7. (paid + 1) * px * PPM > worth
  BY <1>2, <1>3, <1>5, <1>6
<1> QED  BY <1>7 DEF paid, p, px, worth

(* Only a return of `fill` ends a swap.                                    *)
LEMMA OnlyReturnsEnd ==
    ASSUME VaultInv, Next, ~Idle, call' = NoCall
    PROVE  Returns
<1>1. call # call'
  BY DEF Idle
<1> QED
  BY <1>1, TrafficCarries
  DEF Next, VaultInv, deploy, swap, ForeignSwap, Governance, set_relayer, set_discount,
      set_admin, Surroundings

(* A swap of the real tokens that closes pays the worth of what it sold at *)
(* the feed's prices in force, whichever factory asked for it and whatever *)
(* discount, age and minimum it named (Vault::swap, oracle_floor,          *)
(* fresh_price).                                                           *)
THEOREM PricesAreFair == Spec => FairPrice
<1>1. ASSUME VaultInv, [Next]_vars, ~Idle, call' = NoCall, ledger' # call.saved,
             call.canonical
      PROVE  PaidFairly
  <2>1. Next
    BY <1>1 DEF vars, Idle
  <2>2. SwapCloses
    BY <1>1, <2>1, OnlyReturnsEnd DEF Returns, SwapTraps
  <2>3. Priced(call.amount, call.want)
    BY <1>1, <2>2, SwapClosesEffect DEF Pending
  <2> QED  BY <1>1, <2>2, <2>3, ClosePaysPrice DEF Priced, PaidFairly
<1>2. VaultInv /\ [Next]_vars =>
          [~Idle /\ call' = NoCall /\ ledger' # call.saved /\ call.canonical
              => PaidFairly]_vars
  BY <1>1
<1> QED  BY <1>2, VaultInvariant, PTL DEF Spec, FairPrice

-----------------------------------------------------------------------------
(* The refinement.  Opening a swap, a trap and whatever a filler does show *)
(* nothing; closing the swap shows all of it at once.                      *)

LEMMA PromiseInit ==
    ASSUME Init
    PROVE  Promise!Init
<1>1. Shown = ledger
  BY DEF Init, VaultInit, Shown, Idle
<1>2. \A v \in Vaults : ledger.usdcOut[Payee(v)] = 0 /\ ledger.xlmOut[Payee(v)] = 0
  BY PayeeTyped DEF Init, VaultInit
<1>3. /\ ledger.usdc = [v \in Vaults |-> 0] /\ ledger.xlm = [v \in Vaults |-> 0]
      /\ ledger.sold = [v \in Vaults |-> 0]
      /\ feed = [a \in OracleAsset |-> NoRecord]
  BY DEF Init, VaultInit
<1> QED  BY <1>1, <1>2, <1>3, GenuineVaults DEF Promise!Init, Promise!Zero

(* A step that changes neither what is shown nor the prices.               *)
LEMMA PromiseStutters ==
    ASSUME SameMoney(Shown, Shown'), feed' = feed
    PROVE  UNCHANGED Promise!custodyVars
BY DEF SameMoney, Promise!custodyVars, Promise!money

(* What the promise asks of a vault, in the books of two ledgers.          *)
KeepsBooks(l, m, v) ==
    /\ m.sold[v] >= l.sold[v]
    /\ m.usdcOut[Payee(v)] >= l.usdcOut[Payee(v)]
    /\ m.xlmOut[Payee(v)] >= l.xlmOut[Payee(v)]
    /\ m.usdc[v] + m.sold[v] + m.usdcOut[Payee(v)]
          >= l.usdc[v] + l.sold[v] + l.usdcOut[Payee(v)]
    /\ m.xlm[v] + m.xlmOut[Payee(v)] >= l.xlm[v] + l.xlmOut[Payee(v)]

LEMMA PromiseKeeps ==
    ASSUME NEW v \in Genuine, KeepsBooks(Shown, Shown', v)
    PROVE  Promise!Keeps(v)
BY DEF KeepsBooks, Promise!Keeps

(* Between transactions, transfers and withdrawals convert nothing.        *)
LEMMA TrafficKeepsPromise ==
    ASSUME VaultInv, VaultInv', Traffic
    PROVE  [Promise!Next]_(Promise!custodyVars)
<1>1. /\ ledger \in Ledgers /\ ledger' \in Ledgers
      /\ \A w \in Vaults : Carries(ledger, ledger', w)
      /\ UNCHANGED <<feed, now, call, factory>>
  BY TrafficCarries DEF VaultInv
<1>2. CASE ~Idle
  <2>1. Shown' = Shown
    BY <1>1, <1>2 DEF Shown, Idle
  <2> QED  BY <1>1, <2>1, PromiseStutters DEF SameMoney
<1>3. CASE Idle
  <2>1. Shown = ledger /\ Shown' = ledger'
    BY <1>1, <1>3 DEF Shown, Idle
  <2>2. ASSUME NEW v \in Genuine
        PROVE  Promise!Keeps(v) /\ ~Promise!Converts(v)
    <3>1. Carries(ledger, ledger', v) /\ v \in Vaults
      BY <1>1, GenuineVaults
    <3>2. KeepsBooks(ledger, ledger', v)
      BY <1>1, <3>1, LedgerTyped DEF Carries, KeepsBooks
    <3>3. ~(ledger'.sold[v] > ledger.sold[v])
      BY <1>1, <3>1, LedgerTyped DEF Carries
    <3> QED  BY <2>1, <3>2, <3>3, PromiseKeeps DEF Promise!Converts
  <2>3. Promise!Transaction
    BY <1>1, <2>2 DEF Promise!Transaction
  <2> QED  BY <2>3 DEF Promise!Next
<1> QED  BY <1>2, <1>3

(* A swap that closes converts for at most one vault and pays its owner.   *)
LEMMA CloseKeepsPromise ==
    ASSUME VaultInv, VaultInv', SwapCloses, feed' = feed
    PROVE  Promise!Next
<1>0. PICK c, s : c = call.vault /\ s = call.saved
  OBVIOUS
<1>1. /\ call \in Calls /\ Pending(call) /\ c \in Vaults /\ s \in Ledgers
      /\ call.amount \in Nat
      /\ ledger \in Ledgers /\ ledger' \in Ledgers
      /\ Shown = s /\ Shown' = ledger'
      /\ c \in Genuine => call.canonical
  BY <1>0, SwapClosesElsewhere DEF VaultInv, Calls, Shown, Idle, Pending
<1>2. ASSUME NEW v \in Genuine, v # c
      PROVE  KeepsBooks(s, ledger', v) /\ ~(ledger'.sold[v] > s.sold[v])
  <2>1. /\ Balanced(s, v) /\ Balanced(ledger, v) /\ Grown(s, ledger, v)
        /\ ledger.sold[v] = s.sold[v] /\ v \in Vaults
    BY <1>0, <1>1, <1>2, GenuineVaults DEF VaultInv, Pending
  <2>2. SameAt(ledger, ledger', v)
    BY <1>0, <1>2, <2>1, SwapClosesElsewhere
  <2> QED
    BY <1>1, <2>1, <2>2, LedgerTyped DEF KeepsBooks, Balanced, Grown, SameAt
<1>3. ASSUME c \in Genuine
      PROVE  KeepsBooks(s, ledger', c) /\ Promise!Pays(c)
  <2>1. /\ Held(s, ledger, c, call.amount) /\ call.before = s.xlm[c] /\ call.canonical
        /\ Balanced(s, c) /\ Balanced(ledger, c) /\ Grown(s, ledger, c)
    BY <1>0, <1>1, <1>3 DEF VaultInv, Pending
  <2>2. /\ ledger'.xlm[c] = 0
        /\ ledger'.xlmOut[Payee(c)] = ledger.xlmOut[Payee(c)] + ledger.xlm[c]
        /\ ledger'.usdc[c] = ledger.usdc[c] /\ ledger'.sold[c] = ledger.sold[c]
        /\ ledger'.usdcOut[Payee(c)] = ledger.usdcOut[Payee(c)]
    BY <1>0, <2>1, SwapClosesEffect
  <2>3. /\ s.xlmOut[Payee(c)] = ledger.xlmOut[Payee(c)]
        /\ ledger'.sold[c] - s.sold[c] = call.amount
    BY <1>1, <2>1, <2>2, LedgerTyped DEF Held
  <2>4. KeepsBooks(s, ledger', c)
    BY <1>1, <2>1, <2>2, LedgerTyped DEF KeepsBooks, Balanced, Grown, Held
  <2>5. LET brought == ledger'.xlmOut[Payee(c)] - s.xlmOut[Payee(c)] - s.xlm[c]
        IN  (brought + 1) * feed["XLM"].price * PPM
               > (ledger'.sold[c] - s.sold[c]) * feed["USDC"].price * (PPM - DISCOUNT_CAP_PPM)
    BY <1>0, <2>1, <2>3, ClosePaysPrice
  <2>6. \A a \in DOMAIN feed : feed[a] # [x \in OracleAsset |-> NoRecord][a]
    <3>1. DOMAIN feed = OracleAsset /\ \A a \in OracleAsset : feed[a] \in PriceData
      BY <1>1, <2>1 DEF VaultInv, FeedType, Quotes, Pending, Priced
    <3> QED  BY <3>1, OracleAssumption
  <2> QED  BY <1>1, <1>3, <2>2, <2>4, <2>5, <2>6 DEF Promise!Pays
<1>4. \A v \in Genuine : Promise!Keeps(v) /\ (Promise!Converts(v) => v = c)
  BY <1>1, <1>2, <1>3, PromiseKeeps DEF Promise!Converts
<1>5. Promise!Transaction
  <2>1. \A v \in Genuine : Promise!Converts(v) => Promise!Pays(v)
    BY <1>3, <1>4
  <2>2. feed' = feed
    OBVIOUS
  <2> QED  BY <1>4, <2>1, <2>2 DEF Promise!Transaction
<1> QED  BY <1>5 DEF Promise!Next

LEMMA PromiseStep ==
    ASSUME VaultInv, VaultInv', [Next]_vars
    PROVE  [Promise!Next]_(Promise!custodyVars)
<1>1. CASE \E f \in Factories, o \in Owners \cup Malformed : deploy(f, o)
  <2>1. Idle /\ Idle' /\ SameMoney(ledger, ledger') /\ feed' = feed
    BY <1>1, DeployStep DEF deploy
  <2> QED  BY <2>1, PromiseStutters DEF Shown
<1>2. CASE \/ \E r \in Relayers, o \in Owners \cup Malformed,
                 a \in VaultInputs.amount \cup {NoAmount}, w \in VaultInputs.minOut :
                     swap(r, o, a, w)
           \/ \E f \in Impostors, v \in Vaults, o \in Owners, g \in Factories,
                 a \in VaultInputs.amount, w \in VaultInputs.minOut, cfg \in VaultConfig :
                     ForeignSwap(f, v, o, g, a, w, cfg)
  <2>1. Idle /\ ~Idle' /\ call'.saved = ledger /\ feed' = feed
    BY <1>2, SwapStep, ForeignSwapStep
  <2>2. Shown' = Shown
    BY <2>1 DEF Shown
  <2> QED  BY <2>1, <2>2, PromiseStutters DEF SameMoney
<1>3. CASE SwapCloses /\ UNCHANGED <<feed, now, factory>>
  BY <1>3, CloseKeepsPromise
<1>4. CASE SwapTraps /\ UNCHANGED <<feed, now, factory>>
  <2>1. Shown' = Shown
    BY <1>4 DEF SwapTraps, Shown, Idle
  <2> QED  BY <1>4, <2>1, PromiseStutters DEF SameMoney
<1>5. CASE Traffic
  BY <1>5, TrafficKeepsPromise
<1>6. CASE Governance \/ UNCHANGED vars
  <2>1. UNCHANGED <<feed, ledger, call>>
    BY <1>6, GovernanceStep DEF vars
  <2>2. Shown' = Shown
    BY <2>1 DEF Shown, Idle
  <2> QED  BY <2>1, <2>2, PromiseStutters DEF SameMoney
<1>7. CASE Surroundings
  <2>1. UNCHANGED <<ledger, call>>
    BY <1>7, SurroundingsStep
  <2>2. Shown' = Shown
    BY <2>1 DEF Shown, Idle
  <2>3. CASE feed' = feed
    BY <2>2, <2>3, PromiseStutters DEF SameMoney
  <2>4. CASE feed' # feed
    <3>1. Promise!Requote
      BY <2>2, <2>4 DEF Promise!Requote, Promise!money
    <3> QED  BY <3>1 DEF Promise!Next
  <2> QED  BY <2>3, <2>4
<1> QED  BY <1>1, <1>2, <1>3, <1>4, <1>5, <1>6, <1>7 DEF Next, Returns

(* To anyone who looks between transactions, the genuine factory and its   *)
(* vaults are VaultCustody, among whatever impostors: USDC goes back to    *)
(* the owner or is converted at a fair price, in one step.                 *)
THEOREM PromiseImplemented == Spec => PromiseKept
<1>1. VaultInv /\ VaultInv' /\ [Next]_vars => [Promise!Next]_(Promise!custodyVars)
  BY PromiseStep
<1> QED
  BY <1>1, PromiseInit, VaultInvariant, PTL DEF Spec, PromiseKept, Promise!Spec
=============================================================================
