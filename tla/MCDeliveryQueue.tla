-------------------------- MODULE MCDeliveryQueue --------------------------
EXTENDS DeliveryQueue, TLC

\* One message for two domains.
OneMessage == 1 :> 1 @@ 2 :> 1
TwoDomains == 1 :> 1 @@ 2 :> 2

\* Two messages with one recipient each, in one domain.
TwoMessages == 1 :> 1 @@ 2 :> 2
OneDomain == 1 :> 1 @@ 2 :> 1
=============================================================================
