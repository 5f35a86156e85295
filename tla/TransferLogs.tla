---------------------------- MODULE TransferLogs ----------------------------
(***************************************************************************)
(* The pure half of MegaETH payment verification: verifyTransferLogs of    *)
(* src/src/verification/megaeth.ts decides from the logs of one mined      *)
(* transaction whether the gateway has been paid.                          *)
(*                                                                         *)
(* A log is a record.  "address" is the contract that emitted it and       *)
(* "event" says whether viem's parseEventLogs decodes it as a Transfer;    *)
(* "from", "to" and "value" are the decoded arguments.  Addresses are      *)
(* compared after toLowerCase on both sides, so an address here stands for *)
(* its lower-case form.  Values are JavaScript bigints: no overflow.       *)
(***************************************************************************)
EXTENDS Integers, Sequences

CONSTANTS
  Accounts,    (* who can send or receive a token                          *)
  Contracts,   (* contracts that can emit a log                            *)
  USDm         (* MEGAETH_CONFIG.stablecoin.address                        *)

ASSUME USDmAssumption == USDm \in Contracts

NoPayer == "undefined"

Log ==
  [address : Contracts, event : {"Transfer", "Other"},
   from : Accounts, to : Accounts, value : Nat]

Verdict ==
  [valid : BOOLEAN, payer : Accounts \cup {NoPayer},
   error : {"", "no USDm log", "no Transfer event", "wrong recipient", "insufficient"}]

Rejected(why) == [valid |-> FALSE, payer |-> NoPayer, error |-> why]

-----------------------------------------------------------------------------
(* filter: the logs that are wanted, in their order.                        *)
Selected(logs, wanted) ==
  LET kept[i \in 0 .. Len(logs)] ==
        IF i = 0 THEN <<>>
        ELSE IF logs[i] \in wanted THEN Append(kept[i - 1], logs[i]) ELSE kept[i - 1]
  IN kept[Len(logs)]

(* Mutant: whoever emitted them.                                            *)
UsdmLogs_AnyContract(logs) == Selected(logs, Log)

(* The logs the USDm contract emitted.                                      *)
UsdmLogs(logs) == Selected(logs, {l \in Log : l.address = USDm})

(* parseEventLogs in its default strict mode skips what is not a Transfer.  *)
DecodeTransfers(logs) == Selected(logs, {l \in Log : l.event = "Transfer"})

(* Mutant: split payments do not add up.                                    *)
AddTransfer_LastOnly(paid, t, recipient) ==
  IF t.to = recipient THEN [total |-> t.value, payer |-> t.from] ELSE paid

(* Mutant: the sender of any transfer takes the credit.                     *)
AddTransfer_AnyPayer(paid, t, recipient) ==
  [total |-> paid.total + (IF t.to = recipient THEN t.value ELSE 0), payer |-> t.from]

AddTransfer(paid, t, recipient) ==
  IF t.to = recipient THEN [total |-> paid.total + t.value, payer |-> t.from] ELSE paid

(* The loop over the transfers: the total sent to the recipient, and the    *)
(* sender of the last transfer that reached it.                             *)
SumTransfers(transfers, recipient) ==
  LET paid[i \in 0 .. Len(transfers)] ==
        IF i = 0 THEN [total |-> 0, payer |-> NoPayer]
        ELSE AddTransfer(paid[i - 1], transfers[i], recipient)
  IN paid[Len(transfers)]

VerifyTransferLogs(logs, expectedAmount, expectedRecipient) ==
  LET usdmLogs  == UsdmLogs(logs)
      transfers == DecodeTransfers(usdmLogs)
      paid      == SumTransfers(transfers, expectedRecipient)
  IN CASE usdmLogs = <<>>             -> Rejected("no USDm log")
       [] transfers = <<>> /\ usdmLogs # <<>> -> Rejected("no Transfer event")
       [] transfers # <<>> /\ paid.total = 0  -> Rejected("wrong recipient")
       [] paid.total # 0 /\ paid.total < expectedAmount -> Rejected("insufficient")
       [] OTHER -> [valid |-> TRUE, payer |-> paid.payer, error |-> ""]

-----------------------------------------------------------------------------
(* What a transaction pays, without filters and loops: the transfers of     *)
(* USDm to the recipient, and the sum of their values in whatever order.    *)

Contributions(logs, recipient) ==
  {i \in DOMAIN logs : /\ logs[i].address = USDm
                       /\ logs[i].event = "Transfer"
                       /\ logs[i].to = recipient}

Received(logs, recipient) ==
  LET sum[s \in SUBSET Contributions(logs, recipient)] ==
        IF s = {} THEN 0
        ELSE LET i == CHOOSE j \in s : TRUE IN logs[i].value + sum[s \ {i}]
  IN sum[Contributions(logs, recipient)]
=============================================================================
