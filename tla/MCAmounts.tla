------------------------------ MODULE MCAmounts ------------------------------
(***************************************************************************)
(* Every price string up to a length, spelled digit by digit, against       *)
(* reference definitions; and for the prices of Sampled every transaction   *)
(* of at most MaxLogs logs: verifyTransferLogs on the amount that the route *)
(* demands.                                                                 *)
(***************************************************************************)
EXTENDS Prices, TransferLogs

CONSTANTS Treasury, Digits, MaxInt, MaxDec, MaxLogs, MaxValue

ASSUME AmountsAssumption ==
  /\ Digits \subseteq Digit
  /\ Treasury \in Accounts
  /\ \E a \in Accounts : a # Treasury

VARIABLES price, logs

vars == <<price, logs>>

Init == price = [int |-> <<>>, dec |-> <<>>] /\ logs = <<>>

(* The price has one more digit. *)
Spell ==
  /\ logs = <<>>
  /\ \E d \in Digits :
       \/ /\ Len(price.int) < MaxInt /\ price.dec = <<>>
          /\ price' = [price EXCEPT !.int = Append(@, d)]
       \/ /\ Len(price.dec) < MaxDec
          /\ price' = [price EXCEPT !.dec = Append(@, d)]
  /\ UNCHANGED logs

(* The prices of 0 to 3 units of USDm, with all their decimals. *)
Sampled ==
  {[int |-> <<0>>, dec |-> Append(Zeros(USDM_DECIMALS - 1), n)] : n \in 0 .. 3}

(* The transaction emits one more log. *)
Emit ==
  /\ price \in Sampled
  /\ Len(logs) < MaxLogs
  /\ \E a \in Contracts, e \in {"Transfer", "Other"},
        from \in Accounts, to \in Accounts, v \in 0 .. MaxValue :
       logs' = Append(logs, [address |-> a, event |-> e, from |-> from, to |-> to, value |-> v])
  /\ UNCHANGED price

Next == Spell \/ Emit

Spec == Init /\ [][Next]_vars

-----------------------------------------------------------------------------
(* Prices. *)

(* What the digits of the price say, in units of its last digit. *)
Written == Number(price.int \o price.dec)
Unit == Pow10[Len(price.dec)]

(* "pure string arithmetic" (validation.ts:174): the amount is the price in *)
(* units of the token, and what is less than a unit is cut off, however     *)
(* many decimals are written, whatever zeros lead or trail.                 *)
AmountIsFloor ==
  \A d \in {USDC_DECIMALS, USDM_DECIMALS} :
    LET amount == PriceStringToTokenAmount(price, d)
    IN amount * Unit <= Written * Pow10[d] /\ Written * Pow10[d] < (amount + 1) * Unit

(* "our prices have at most 3 dp" (x402.ts:22); six are enough.             *)
Usual == Len(price.dec) <= USDC_DECIMALS

Transfer(amount) ==
  [address |-> USDm, event |-> "Transfer", from |-> CHOOSE a \in Accounts : a # Treasury,
   to |-> Treasury, value |-> amount]

(* The SDK asks for a payment in a 402, from the price as a float; the      *)
(* direct payment is held against the amount from the string.  A client     *)
(* that transfers what it was asked for is accepted, and one that transfers *)
(* a unit less is not.                                                      *)
AskedIsAccepted ==
  Usual /\ PayToEvm /\ Written > 0 =>
    \A float \in Floats(price) :
      LET Direct(amount) ==
            VerifyTransferLogs(<<Transfer(amount)>>, RouteRequirement(price), Treasury).valid
      IN Direct(UsdToUsdm(float)) /\ ~Direct(UsdToUsdm(float) - 1)

Costs(usd) == usd.raw * Unit = Written * usd.scale

(* What is logged as paid comes to the price on every network, converted    *)
(* with the decimals of its token: for a direct payment the amount that the *)
(* route demands, for one that the SDK has verified the amount that the     *)
(* client says it accepts, also where only the lenient match lets it pass.  *)
RevenueIsPrice ==
  Usual =>
    /\ PayToEvm => Costs(RawToUsd(RouteRequirement(price), "megaeth"))
    /\ \A float \in Floats(price), extra \in {"then", "now"} :
         LET available == Asked(float, "now")
             claims == {[network |-> a.network, extra |-> extra, amount |-> a.amount + slip] :
                          a \in available, slip \in {0 - 1, 0, 1}}
         IN \A accepted \in UNION {FindMatchingRequirements(available, c) : c \in claims} :
              Costs(RawToUsd(accepted.amount, accepted.network))

-----------------------------------------------------------------------------
(* Transactions. *)

amount == RouteRequirement(price)

verdict == VerifyTransferLogs(logs, amount, Treasury)

(* Split payments add up (megaeth.ts 162-163) and nothing else counts: a    *)
(* transaction pays exactly when the USDm transfers to the gateway come to  *)
(* something, and to at least the price.                                    *)
PaysExactlyWhenSumReaches ==
  LET sum == Received(logs, Treasury)
  IN PayToEvm => /\ verdict \in Verdict
                 /\ verdict.valid <=> (sum > 0 /\ sum >= amount)

(* The account a payment is attributed to is the sender of the last         *)
(* transfer of USDm to the gateway in this transaction (megaeth.ts 172):    *)
(* not the sender of other tokens or to other accounts, and not the one     *)
(* that paid first or most.  A last transfer of nothing takes the credit.   *)
PayerSentLast ==
  verdict.valid =>
    \E i \in Contributions(logs, Treasury) :
      /\ \A j \in Contributions(logs, Treasury) : j <= i
      /\ logs[i].from = verdict.payer

(* Logs of other contracts change nothing, wherever they stand among the    *)
(* transfers: the verdict, the error and the payer are those of the         *)
(* transaction without them.                                                *)
ForeignLogsIgnored ==
  verdict = VerifyTransferLogs(Selected(logs, {l \in Log : l.address = USDm}), amount, Treasury)
=============================================================================
