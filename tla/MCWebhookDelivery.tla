-------------------------- MODULE MCWebhookDelivery --------------------------
(***************************************************************************)
(* WebhookDelivery for TLC: one webhook of app a and org o1 for every      *)
(* event, one of app a in no org for one event type.                       *)
(***************************************************************************)
EXTENDS WebhookDelivery, TLC

CONSTANTS h1, h2, a, o1, o2

MCWebhooks == {h1, h2}

MCScope == (h1 :> [app |-> a, org |-> o1, events |-> {"*"}])
        @@ (h2 :> [app |-> a, org |-> None, events |-> {"created"}])

MCEvents == {[app |-> a, org |-> o1, type |-> "created"],
             [app |-> a, org |-> o2, type |-> "deleted"],
             [app |-> None, org |-> None, type |-> "created"]}
=============================================================================
