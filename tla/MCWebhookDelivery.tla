------------------------- MODULE MCWebhookDelivery --------------------------
EXTENDS WebhookDelivery, TLC
CONSTANTS e1, e2

\* The older delivery goes to e1, the younger to e2.
MCEndpointOf == 1 :> e1 @@ 2 :> e2

\* The name of e1 gets a private address now and then; e2 is a literal.
MCAnswers == e1 :> {{"public"}, {"public", "private"}} @@ e2 :> {{"public"}}
=====
