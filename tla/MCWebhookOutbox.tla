-------------------------- MODULE MCWebhookOutbox --------------------------
(* The outbox on a small instance.  The replicas are interchangeable, and  *)
(* so are the events and the subscriptions that no row exists for yet.     *)
EXTENDS WebhookOutbox, TLC
CONSTANTS e1, e2, s1, s2, i1, i2, invoices, orders

Interchangeable == Permutations(Instances)
=============================================================================
