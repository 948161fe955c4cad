----------------------------- MODULE MCMessages -----------------------------
(***************************************************************************)
(* The three ways a message leaves the system: one URGENT notification for *)
(* a recipient with a device and an address, through the outbox; the daily *)
(* reminders of one vendor; and direct sends under one key or none.  They  *)
(* share the log table but no row of it (a reminder's key names its day):  *)
(* a behaviour works on one of them.                                       *)
(***************************************************************************)
EXTENDS NotificationDelivery, VendorReminders, DirectSend

CONSTANTS w1, w2, v1, c1, d1, d2,
          Parts  \* the parts to explore

VARIABLE part

MCWorkers == {w1, w2}
MCOneWorker == {w1}
MCRegistered == {1}
MCPriority == <<"URGENT">>
MCContacts == <<{"PUSH", "EMAIL"}>>
\* Workers and runs are never seen together.
MCSymmetry == Permutations({w1, w2})

MCInit ==
  /\ part \in Parts
  /\ DeliveryInit /\ ReminderInit /\ DirectInit

MCNext ==
  /\ \/ part = "delivery"  /\ DeliveryNext /\ UNCHANGED <<remindersAll, directVars>>
     \/ part = "reminders" /\ ReminderNext /\ UNCHANGED <<allVars, directVars>>
     \/ part = "direct"    /\ DirectNext   /\ UNCHANGED <<allVars, remindersAll>>
  /\ UNCHANGED part

MCSpec == MCInit /\ [][MCNext]_<<part, allVars, remindersAll, directVars>>

\* However often the daily job runs or dies, a reminder is mailed once, and two of one day
\* contradict each other only across the end of a grace period; and a direct message
\* under a key goes out once.
OnceWhereKeyed == OneMailPerReminder /\ StoryFollowsGrace /\ OneMessagePerKey
=============================================================================
