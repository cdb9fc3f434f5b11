-------------------------- MODULE MCAlertDelivery --------------------------
(* Small instances of AlertDelivery for TLC. *)
EXTENDS AlertDelivery
CONSTANTS alerts1, alerts2, overdue, summary, admin, iworkAdmin
=============================================================================
