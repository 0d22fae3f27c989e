----------------------- MODULE MCNotificationDelivery -----------------------
(* Two notifications, two executors: the concurrency of the notification    *)
(* worker.                                                                  *)
EXTENDS NotificationDelivery
=============================================================================
