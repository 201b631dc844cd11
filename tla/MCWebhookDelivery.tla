------------------------- MODULE MCWebhookDelivery -------------------------
(***************************************************************************)
(* A small instance of WebhookDelivery: three updates, two of one chat.    *)
(***************************************************************************)
EXTENDS WebhookDelivery

TwoChats == <<1, 1, 2>>

ShortSecond == <<9, 0, 9>>
=============================================================================
