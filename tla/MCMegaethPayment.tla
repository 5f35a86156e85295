--------------------------- MODULE MCMegaethPayment ---------------------------
(***************************************************************************)
(* A small instance of MegaethPayment: two transactions, one of them also   *)
(* written in upper case.  "paid" sent the treasury 2 USDm in two           *)
(* transfers, "fail" would have but was reverted.  A call demands 2 or 3,   *)
(* or names an ill-formed recipient.                                        *)
(***************************************************************************)
EXTENDS MegaethPayment, TLC

MCSpellings == {"0xpaid", "0xPAID", "0xfail"}
MCLower == [s \in MCSpellings |-> IF s = "0xPAID" THEN "0xpaid" ELSE s]

MCAccounts == {"alice", "treasury", "bad"}
MCContracts == {"usdm"}
MCUSDm == "usdm"

Transfer(v) ==
  [address |-> "usdm", event |-> "Transfer", from |-> "alice", to |-> "treasury", value |-> v]

MCReceipt ==
  [s \in MCSpellings |->
     [status |-> IF s = "0xfail" THEN "reverted" ELSE "success",
      logs   |-> <<Transfer(1), Transfer(1)>>]]

MCDemands == {[amount |-> 2, payTo |-> "treasury"], [amount |-> 3, payTo |-> "treasury"],
              [amount |-> 2, payTo |-> "bad"]}
MCIllFormed == {"bad"}

Symmetry == Permutations(Calls)
=============================================================================
