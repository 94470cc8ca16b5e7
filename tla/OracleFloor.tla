---------------------------- MODULE OracleFloor ----------------------------
(***************************************************************************)
(* The price floor of the Stellar vault (contracts/vault/src/lib.rs):      *)
(* what a swap must at least deliver, from the last XLM and USDC records   *)
(* of the oracle that the configuration names.  The Reflector feed and the *)
(* ledger clock are external; the feed may stop, run ahead, or publish a   *)
(* price that is no price.                                                 *)
(***************************************************************************)
EXTENDS Integers

CONSTANTS
    DISCOUNT_CAP_PPM,   \* highest discount any factory or vault accepts
    MAX_PRICE_AGE_CAP,  \* highest record age any factory or vault accepts
    MAX_CLOCK_SKEW,     \* how far in the future a record may lie
    I128_MAX,           \* largest representable amount
    Price,              \* prices the feed may publish, non-positive ones too
    NoRecord

VARIABLES
    feed,               \* last record of each asset
    now                 \* ledger timestamp

PPM == 1000000
OracleAsset == {"XLM", "USDC"}
PriceData == [price : Price, timestamp : Nat]

ASSUME OracleAssumption ==
    /\ DISCOUNT_CAP_PPM \in 0 .. PPM
    /\ MAX_PRICE_AGE_CAP \in Nat \ {0}
    /\ MAX_CLOCK_SKEW \in Nat
    /\ I128_MAX \in Nat
    /\ Price \subseteq Int
    /\ NoRecord \notin PriceData


(* Slip: the bounds of a vault that trusts its factory for the caps.       *)
TrustsFactory(cfg) ==
    /\ cfg.max_price_age # 0
    /\ cfg.min_delivery > 0
    /\ cfg.usdc # cfg.xlm

(* The bounds every vault re-checks on the configuration it is handed.     *)
ConfigUsable(cfg) ==
    /\ cfg.discount_ppm <= DISCOUNT_CAP_PPM
    /\ cfg.max_price_age \in 1 .. MAX_PRICE_AGE_CAP
    /\ cfg.min_delivery > 0
    /\ cfg.usdc # cfg.xlm

(* `quotes` are the answers of the oracle that the configuration names, by *)
(* asset: those of the feed, or of a contract that answers as it likes.    *)
Quotes == [OracleAsset -> PriceData \cup {NoRecord}]
FeedType == feed \in Quotes

FreshPrice(record, age) ==
    /\ record # NoRecord
    /\ record.price > 0
    /\ record.timestamp <= now + MAX_CLOCK_SKEW
    /\ now - record.timestamp <= age

Numerator(cfg, quotes, amount) ==
    amount * quotes[cfg.usdc_asset].price * (PPM - cfg.discount_ppm)
Denominator(cfg, quotes) == quotes[cfg.xlm_asset].price * PPM

(* No checked multiplication fails.                                        *)
FloorFits(cfg, quotes, amount) ==
    /\ amount * quotes[cfg.usdc_asset].price <= I128_MAX
    /\ Numerator(cfg, quotes, amount) <= I128_MAX
    /\ Denominator(cfg, quotes) <= I128_MAX

CanPrice(cfg, quotes, amount) ==
    /\ ConfigUsable(cfg)
    /\ FreshPrice(quotes[cfg.xlm_asset], cfg.max_price_age)
    /\ FreshPrice(quotes[cfg.usdc_asset], cfg.max_price_age)
    /\ FloorFits(cfg, quotes, amount)

oracle_floor(cfg, quotes, amount) ==
    Numerator(cfg, quotes, amount) \div Denominator(cfg, quotes)

-----------------------------------------------------------------------------
(* External: the feed publishes, time passes.                              *)

Publish(asset, record) ==
    /\ feed' = [feed EXCEPT ![asset] = record]
    /\ UNCHANGED now

Tick(t) ==
    /\ now' = now + t
    /\ UNCHANGED feed
=============================================================================
