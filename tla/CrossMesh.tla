----------------------------- MODULE CrossMesh -----------------------------
(***************************************************************************)
(* The whole path of a deposit: the contracts of one EVM chain             *)
(* (DepositFactory), Circle's messages, and the Stellar contracts          *)
(* (VaultFactory).  The two chains share nothing but the messages: a       *)
(* settlement burns USDC and leaves a message whose hookData names the     *)
(* recipient committed in the deposit address; anybody may later hand it   *)
(* to Circle's CctpForwarder, in any order, once.  The recipient is a      *)
(* vault or an address that takes the USDC itself.                         *)
(***************************************************************************)
EXTENDS DepositFactory, FiniteSetsExt

CONSTANTS
    Destination,     \* the Stellar address behind each well-formed recipient
    Refused,         \* addresses the CctpForwarder will not forward to
    STELLAR_UNITS,   \* units of Stellar USDC in one EVM subunit (7 against 6 decimals)
    NotMinted,
    (* the Stellar contracts' own parameters *)
    StellarFactory, Owners, BaseOf, Contracts, Admins, Relayers, VaultInputs,
    USDC, XLM, Reflector,
    DISCOUNT_CAP_PPM, MAX_PRICE_AGE_CAP, MAX_CLOCK_SKEW, I128_MAX, BASE_RESERVE,
    MaxUsdc, MaxXlm, Price, NoRecord, NoCall, NoDiscount, NoAmount

VARIABLES
    messages,        \* every CCTP message sent, with the fee Circle took at its mint
    wallet,          \* USDC forwarded to addresses that are no vaults
    feed, ledgerTime, ledger, call, vaultFactory

Stellar == INSTANCE VaultFactory
             WITH Factory <- StellarFactory, Impostors <- {}, Malformed <- {},
                  now <- ledgerTime, factory <- vaultFactory

ASSUME MeshAssumption ==
    /\ IsFiniteSet(Clones)
    /\ STELLAR_UNITS \in Nat \ {0}
    /\ NotMinted \notin Nat
    /\ Stellar!Vaults \cap Stellar!Bases = {}

(* What the Stellar modules ask of their parameters.                       *)
ASSUME StellarAssumption ==
    /\ DOMAIN BaseOf = Owners
    /\ USDC # XLM /\ Reflector \notin {USDC, XLM}
    /\ BASE_RESERVE \in Nat \ {0} /\ MaxUsdc \in Nat /\ MaxXlm \in Nat
    /\ DISCOUNT_CAP_PPM \in 0 .. Stellar!PPM
    /\ MAX_PRICE_AGE_CAP \in Nat \ {0}
    /\ MAX_CLOCK_SKEW \in Nat /\ I128_MAX \in Nat
    /\ Price \subseteq Int
    /\ NoRecord \notin Stellar!PriceData
    /\ NoCall \notin Stellar!Calls
    /\ VaultInputs.discount \cup VaultInputs.age \cup VaultInputs.time \subseteq Nat
    /\ VaultInputs.usdc \cup VaultInputs.xlm \subseteq Nat
    /\ VaultInputs.delivery \cup VaultInputs.amount \cup VaultInputs.minOut \subseteq Int
    /\ VaultInputs.price \subseteq Price
    /\ VaultInputs.asset \subseteq Stellar!OracleAsset
    /\ NoDiscount \notin VaultInputs.discount

stellarVars == <<feed, ledgerTime, ledger, call, vaultFactory>>
meshVars == <<facVars, stellarVars, messages, wallet>>

-----------------------------------------------------------------------------
(* The recipient gate of the address producers: any well-formed G, M or C  *)
(* key passes.                                                             *)

(* Slip: the key is not decoded.                                           *)
AnyRecipient(r) == TRUE

isValidRecipient(r) == r \in DOMAIN Destination

(* External: depositors pay only addresses that a producer handed out.     *)
Issued ==
    deposited' > deposited =>
        \A c \in Clones : received'[c] > received[c] => isValidRecipient(Recipient(c))

-----------------------------------------------------------------------------
(* Slip: the framed recipient is the clone's raw args, flag byte included. *)
RawArgs(c) == CloneArgs(c)

(* The recipient framed for the Stellar forwarder.                         *)
hookData(c) == Recipient(c)

Burns(c) == Burned(c)' - Burned(c)

(* depositForBurnWithHook, as _burnViaCctp calls it.                       *)
BurnMessage(c) ==
    LET fast == burned'[c][FINALITY_FAST] > burned[c][FINALITY_FAST]
    IN  [recipient |-> hookData(c), amount |-> Burns(c),
         maxFee |-> CctpMaxFee(Burns(c), CctpRate(fast)), fee |-> NotMinted]

Emit ==
    \/ (\A c \in Clones : Burns(c) = 0) /\ UNCHANGED messages
    \/ \E c \in Clones : Burns(c) > 0 /\ messages' = Append(messages, BurnMessage(c))

Pending(i) == i \in DOMAIN messages /\ messages[i].fee = NotMinted

(* External: the forwarder parses the recipient and refuses its own        *)
(* address and the USDC contract's.                                        *)
Serves(r) == r \in DOMAIN Destination /\ Destination[r] \notin Refused

(* External: CctpForwarder.mint_and_forward, by anyone, in a transaction   *)
(* of its own.  Circle keeps a fee within the message's maxFee; the mint   *)
(* and the transfer to the recipient happen together or not at all.        *)
mint_and_forward(i, fee) ==
    LET m == messages[i]
        to == Destination[m.recipient]
        amount == (m.amount - fee) * STELLAR_UNITS
    IN  /\ Pending(i)
        /\ fee <= m.maxFee
        /\ Serves(m.recipient)
        /\ Stellar!Idle
        /\ \/ /\ to \in Stellar!Vaults
              /\ Stellar!MintAndForward(to, amount)
              /\ UNCHANGED wallet
           \/ /\ to \in Stellar!Bases
              /\ Stellar!TakesUsdc(to)
              /\ wallet' = [wallet EXCEPT ![to] = @ + amount]
              /\ UNCHANGED <<ledger, call>>
        /\ messages' = [messages EXCEPT ![i].fee = fee]
        /\ UNCHANGED <<facVars, feed, ledgerTime, vaultFactory>>

MeshInit ==
    /\ FacInit
    /\ Stellar!Init
    /\ messages = <<>>
    /\ wallet = [b \in Stellar!Bases |-> 0]

EvmStep == FacNext /\ Emit /\ Issued /\ UNCHANGED <<stellarVars, wallet>>
StellarStep == Stellar!Next /\ UNCHANGED <<facVars, messages, wallet>>

MeshNext ==
    \/ EvmStep
    \/ StellarStep
    \/ \E i \in DOMAIN messages, fee \in 0..MaxDeposited : mint_and_forward(i, fee)

MeshSpec == MeshInit /\ [][MeshNext]_meshVars

(* Every party whose help a depositor needs is anybody: the callers of     *)
(* deploy, requestSweep, sweep and mint_and_forward, and the vault's       *)
(* owner.  Stellar transactions are disabled only inside each other, hence *)
(* strong fairness there.                                                  *)
FairMeshSpec ==
    /\ MeshSpec
    /\ WF_meshVars(Tick /\ EvmStep)
    /\ \A c \in Clones :
          /\ WF_meshVars(deploy(c) /\ EvmStep)
          /\ WF_meshVars(c \in deployed /\ requestSweep(c) /\ EvmStep)
          /\ WF_meshVars(c \in deployed /\ sweep(c) /\ EvmStep)
    /\ \A i \in 1..MaxDeposited : SF_meshVars(\E fee \in 0..MaxDeposited : mint_and_forward(i, fee))
    /\ WF_meshVars(Stellar!Returns /\ StellarStep)
    /\ \A o \in Owners :
          /\ SF_meshVars(Stellar!deploy(StellarFactory, o) /\ StellarStep)
          /\ \A t \in {USDC, XLM} :
                SF_meshVars(/\ Stellar!Idle
                            /\ Stellar!withdraw(Stellar!derive_address(o), o, StellarFactory, t)
                            /\ StellarStep)

-----------------------------------------------------------------------------
(* USDC in the hands of a Stellar address, by the ledger l: forwarded to a *)
(* wallet, or at a vault, sold for it or returned to its owner.            *)
InHands(l, d) ==
    IF d \in Stellar!Vaults
    THEN l.usdc[d] + l.sold[d] + l.usdcOut[Stellar!Payee(d)]
    ELSE IF d \in Stellar!Bases THEN wallet[d] ELSE 0

(* Committed to d: an M key and its G key resolve to one address.          *)
For(r, d) == r \in DOMAIN Destination /\ Destination[r] = d

Mine(d) == {c \in Clones : For(Recipient(c), d)}
Mails(d) == {i \in DOMAIN messages : For(messages[i].recipient, d)}

(* What left each deposit address, less service fees, and what of each     *)
(* message the forwarder did not hand on: all of it, then Circle's fee.    *)
Left == [c \in Clones |-> received[c] - usdc[c] - fees[c]]
Outside == [i \in DOMAIN messages |->
               IF Pending(i) THEN messages[i].amount ELSE messages[i].fee]

Sent(d) == STELLAR_UNITS * SumFunctionOnSet(Left, Mine(d))
InTransit(d) == STELLAR_UNITS * SumFunctionOnSet(Outside, Mails(d))
Accounted(l, d) == InTransit(d) + InHands(l, d)

(* Across both chains and all message orders: what left the deposit        *)
(* addresses of a Stellar address, less service fees, is on its way, was   *)
(* kept by Circle or is in its hands, unit for unit unless somebody sends  *)
(* USDC to its vault on top; and Circle kept of no message more than the   *)
(* code-fixed cap, nor all of it.                                          *)
ReachesRecipient ==
    /\ \A r \in DOMAIN Destination :
          LET d == Destination[r]
          IN  /\ Sent(d) <= Accounted(ledger, d)
              /\ VaultInputs.usdc = {} => Sent(d) = Accounted(ledger, d)
    /\ \A i \in DOMAIN messages : ~Pending(i) =>
          /\ messages[i].fee < messages[i].amount
          /\ messages[i].fee <= CeilPpm(messages[i].amount * MaxCctpFeePpm)

(* The threat model's rule for the address producers (DoS.8.R.1): a        *)
(* recipient that passes them is one the forwarder delivers to, so no      *)
(* burned deposit is stranded.                                             *)
NoStrandedMessage == \A i \in DOMAIN messages : Serves(messages[i].recipient)

Ready(r) ==
    LET d == Destination[r]
        b == IF d \in Stellar!Vaults THEN BaseOf[Stellar!OwnerOf(d)] ELSE d
    IN  Stellar!TakesUsdc(b) /\ Stellar!CanSign(b)

(* From the deposit to the owner with nobody's permission: once the chain  *)
(* is wired, Circle serves and the recipients' addresses can sign and hold *)
(* USDC, every deposit address is emptied but for dust, every message is   *)
(* minted, and every vault is emptied by its owner again and again.        *)
Arrives ==
    <>[](/\ config.initialized /\ CircleServes
         /\ \A r \in DOMAIN Destination : Ready(r))
      => /\ <>[](/\ \A c \in Clones : usdc[c] < MIN_SWEEP_AMOUNT
                 /\ \A i \in DOMAIN messages : ~Pending(i))
         /\ \A v \in Stellar!Vaults : []<>(ledger.usdc[v] = 0 /\ ledger.xlm[v] = 0)
=============================================================================
