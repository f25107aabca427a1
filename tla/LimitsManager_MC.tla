-------------------------- MODULE LimitsManager_MC --------------------------
(* Small instances of LimitsManager: the requests of one API key. *)
EXTENDS LimitsManager

MCBucketCap == [b \in Buckets |-> IF b = "second" THEN 2
                                  ELSE IF b = "minute" THEN 1 ELSE Unlimited]
MCTokens == [w \in TokenWindows |-> IF w = "perMinute" THEN 2 ELSE Unlimited]
MCBudget == [w \in Windows |-> IF w = "hourly" THEN 1 ELSE 2]
MCAlertAt == [w \in Windows |-> IF w = "hourly" THEN 1 ELSE 2]
=============================================================================
