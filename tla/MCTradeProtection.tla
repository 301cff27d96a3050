-------------------------- MODULE MCTradeProtection --------------------------
(* Small instance of TradeProtection: a risk of 100 ticks.  The prices are *)
(* one on the losing side, past half of the target distance, and one for   *)
(* each of the two levels at which the profit protection locks profit; the *)
(* lowest level sets the stop to the entry, as other rules do.             *)
EXTENDS TradeProtection

FewGains == {-80, 152, 225}

(* A market that stays between the entry and the trailing activation.      *)
CalmGains == {60, 105}
=============================================================================
