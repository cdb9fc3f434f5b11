------------------------ MODULE MCNotificationInbox ------------------------
(* The page of an iwork administrator and an event of the obligations; two *)
(* workers and two candidates of detectors, of a rule that tells nobody    *)
(* (as the rule for the water mark is installed) and of one that tells the *)
(* administrators only.                                                    *)
EXTENDS NotificationInbox

CONSTANTS watermark, idle, overdue, admin, iworkAdmin

MCMandatory == [e \in {watermark, idle, overdue} |->
                  CASE e = overdue -> {iworkAdmin} [] e = idle -> {admin} [] OTHER -> {}]
=============================================================================
