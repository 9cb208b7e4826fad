------------------------ MODULE MCNotificationOutbox ------------------------
(* NotificationOutbox for TLC: interchangeable notifications and workers.    *)
EXTENDS NotificationOutbox, TLC

NoteSymmetry == Permutations(Notes \ Webhooks) \cup Permutations(Workers)
=============================================================================
