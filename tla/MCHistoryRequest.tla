-------------------------- MODULE MCHistoryRequest --------------------------
(* Small instances of HistoryRequest for TLC. *)
EXTENDS HistoryRequest
CONSTANTS tab1, tab2, celery, t1, t2, t3
MCWebs == {tab1, tab2}
MCWorkers == {celery}
MCTokens == {t1, t2, t3}
=============================================================================
