-------------------------------- MODULE Prices --------------------------------
(***************************************************************************)
(* From the price of a service to token units and back: the conversion of   *)
(* lib/validation.ts, the money parser that middleware/x402.ts gives to the *)
(* SDK, the routes config of services/registry.ts, the matching of a        *)
(* client's payment with it, and rawToUsd of dashboard/lifetime.ts.         *)
(*                                                                         *)
(* A price string "$12.34" is a pair of sequences of digits, what split     *)
(* makes of it.  A JavaScript number is a whole number of units of USDm (no *)
(* finer fraction changes how it is rounded), near the price and seldom     *)
(* equal to it: $0.03 is read as 0.02999999999999999889.  The numbers of    *)
(* decimals, 6 for USDC and 18 for USDm, are parameters.                    *)
(***************************************************************************)
EXTENDS Integers, Sequences

CONSTANTS
  USDC_DECIMALS,   (* also the decimals that usdToUsdm rounds to           *)
  USDM_DECIMALS,
  PayToEvm,        (* is config.payToEvm set?                              *)
  PayToSolana      (* is config.payToSolana set?                           *)

ASSUME DecimalsAssumption ==
  /\ USDC_DECIMALS \in Nat \ {0}
  /\ USDM_DECIMALS \in Nat /\ USDM_DECIMALS > USDC_DECIMALS

Pow10[n \in Nat] == IF n = 0 THEN 1 ELSE 10 * Pow10[n - 1]

Digit == 0 .. 9

Price == [int : Seq(Digit), dec : Seq(Digit)]

(* The networks; each has one token and one recipient.                      *)
Networks == {"base", "solana", "megaeth"}

Decimals(network) == IF network = "megaeth" THEN USDM_DECIMALS ELSE USDC_DECIMALS

-----------------------------------------------------------------------------
(* priceStringToTokenAmount *)

(* BigInt of a string of digits: leading zeros do not count, none at all is *)
(* "0".                                                                     *)
Number(digits) ==
  LET n[i \in 0 .. Len(digits)] == IF i = 0 THEN 0 ELSE 10 * n[i - 1] + digits[i]
  IN n[Len(digits)]

Zeros(n) == [i \in 1 .. n |-> 0]

(* Mutant: padded on the wrong side.                                        *)
PadEnd_AtStart(digits, n) ==
  IF Len(digits) >= n THEN SubSeq(digits, 1, n) ELSE Zeros(n - Len(digits)) \o digits

(* padEnd(n, "0").slice(0, n)                                               *)
PadEnd(digits, n) == SubSeq(digits \o Zeros(n), 1, n)

PriceStringToTokenAmount(price, decimals) ==
  Number(price.int \o PadEnd(price.dec, decimals))

-----------------------------------------------------------------------------
(* The money parser. *)

(* toFixed: the last digits of a whole number of 10^-decimals, and the rest *)
(* of it.                                                                   *)
ToFixed(n, decimals) ==
  [int |-> <<n \div Pow10[decimals]>>,
   dec |-> [i \in 1 .. decimals |-> (n \div Pow10[decimals - i]) % 10]]

(* Mutant: what is behind the sixth decimal is cut off.                     *)
RoundTo_Down(amount, unit) == amount \div unit

(* Math.round(amount * 1e6)                                                 *)
RoundTo(amount, unit) == (amount + unit \div 2) \div unit

UsdToUsdm(amount) ==
  PriceStringToTokenAmount(
    ToFixed(RoundTo(amount, Pow10[USDM_DECIMALS - USDC_DECIMALS]), USDC_DECIMALS),
    USDM_DECIMALS)

(* The numbers that the SDK may read from a price string.  A double has 53  *)
(* bits, and its product with 1e6 is rounded once more: below a billion     *)
(* dollars the two together come to less than half of the sixth decimal.    *)
(* That is all that is assumed; the error may be thousands of units.        *)
Floats(price) ==
  LET exact == PriceStringToTokenAmount(price, USDM_DECIMALS)
      slack == Pow10[USDM_DECIMALS - USDC_DECIMALS] \div 2 - 1
  IN (exact - slack .. exact + slack) \cap Nat

-----------------------------------------------------------------------------
(* The routes config, and the requirements a payment has to meet. *)

Enabled ==
  (IF PayToEvm THEN {"base", "megaeth"} ELSE {}) \cup (IF PayToSolana THEN {"solana"} ELSE {})

(* The "accepts" of a service.                                              *)
Accepts(price) ==
  {[network |-> n, amount |-> PriceStringToTokenAmount(price, Decimals(n))] : n \in Enabled}

(* getRouteRequirements: what a direct payment has to come to.              *)
RouteRequirement(price) ==
  LET megaeth == {a \in Accepts(price) : a.network = "megaeth"}
  IN IF megaeth = {} THEN "null" ELSE (CHOOSE a \in megaeth : TRUE).amount

(* What the SDK asks for in its 402: for USDm by the parser above, for USDC *)
(* by its own, which is exact to the sixth decimal.  "extra" is the fee     *)
(* payer that the facilitator names, which may change from one call to the  *)
(* next.                                                                    *)
Asked(amount, extra) ==
  {[network |-> n, extra |-> extra,
    amount |-> IF n = "megaeth" THEN UsdToUsdm(amount)
               ELSE RoundTo(amount, Pow10[USDM_DECIMALS - USDC_DECIMALS])] : n \in Enabled}

(* scheme, network, amount, asset and payTo agree.                          *)
SameCore(req, accepted) == req.network = accepted.network /\ req.amount = accepted.amount

(* The requirements a payment is verified against: one that agrees in       *)
(* everything, else the client's own if one agrees but for "extra".         *)
FindMatchingRequirements(available, accepted) ==
  IF \E req \in available : SameCore(req, accepted) THEN {accepted} ELSE {}

-----------------------------------------------------------------------------
(* Mutant: every token has the decimals of USDC.                            *)
RawToUsd_OneScale(raw, network) == [raw |-> raw, scale |-> Pow10[USDC_DECIMALS]]

(* rawToUsd, as a fraction.                                                 *)
RawToUsd(raw, network) == [raw |-> raw, scale |-> Pow10[Decimals(network)]]
=============================================================================
