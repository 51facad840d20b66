------------------------------- MODULE PgMock -------------------------------
(***************************************************************************)
(* pg-mock-service: the payment gateway stand-in.  It keeps one record per *)
(* payment key in a Map of its process, and tells the shop of an approval  *)
(* or a cancellation by one webhook, sent once and never retried.          *)
(* payment-service asks for a fresh key in each payment request, so a key  *)
(* is named here by the request it was made for.                           *)
(***************************************************************************)
EXTENDS SagaParties

Events == {"PAYMENT.APPROVED", "PAYMENT.CANCELED"}

\* "none": the key does not exist yet; "lost": it did, before a restart.
PgStates == {"none", "READY", "DONE", "CANCELED", "lost"}

VARIABLES pg,        \* the Map of payment records
          webhook    \* the post of each event: not yet, on its way, or over

pgVars == <<pg, webhook>>

PgType == /\ pg \in [Keys -> PgStates]
          /\ webhook \in [Keys \X Events -> {"none", "sent", "gone"}]

PgInit == /\ pg = [k \in Keys |-> "none"]
          /\ webhook = [h \in Keys \X Events |-> "none"]

PgCreate(k) == /\ pg[k] = "none"
               /\ pg' = [pg EXCEPT ![k] = "READY"]
               /\ UNCHANGED webhook

PgApprove(k) == /\ pg[k] = "READY"
                /\ pg' = [pg EXCEPT ![k] = "DONE"]
                /\ webhook' = [webhook EXCEPT ![<<k, "PAYMENT.APPROVED">>] = "sent"]

\* A second cancellation (409) and an unknown key (404) are errors.
PgCancel(k) == /\ pg[k] = "DONE"
               /\ pg' = [pg EXCEPT ![k] = "CANCELED"]
               /\ webhook' = [webhook EXCEPT ![<<k, "PAYMENT.CANCELED">>] = "sent"]

\* The post reaches the shop, or fails and is only logged.
WebhookLeaves(h) == /\ webhook[h] = "sent"
                    /\ webhook' = [webhook EXCEPT ![h] = "gone"]
                    /\ UNCHANGED pg

\* The process restarts with an empty Map; posts it was making may be cut off.
PgRestart ==
    /\ \E k \in Keys : pg[k] \in {"READY", "DONE", "CANCELED"}
    /\ pg' = [k \in Keys |-> IF pg[k] = "none" THEN "none" ELSE "lost"]
    /\ \E cut \in SUBSET {h \in Keys \X Events : webhook[h] = "sent"} :
          webhook' = [h \in Keys \X Events |->
                         IF h \in cut THEN "gone" ELSE webhook[h]]
=============================================================================
