-------------------------- MODULE VendorReminders --------------------------
(***************************************************************************)
(* The job cmd/vendor-reminders over the tables of OperatingStatus: it     *)
(* lists the overdue vendors once, at the instant it begins, then          *)
(* reserves, sends and marks one reminder after the other.  A run may be   *)
(* started at any instant, also beside a running one (the timer is daily,  *)
(* but catches up on the run it missed), and dies anywhere.  Who is listed *)
(* depends on the instant, the keys only on its day; the mail goes through *)
(* comms.Send with a key.                                                  *)
(***************************************************************************)
EXTENDS OperatingStatus

CONSTANTS
  Runs,       \* processes alive at once (bound)
  MaxStarts,  \* runs started in all (bound)
  LastBill,   \* the last instant at which a subscription is billed (bound)
  DayLength   \* 24 hours, in instants

VARIABLES
  job,       \* [Runs -> where the process is]
  reminder,  \* set of keys with a vendor_operating_reminders row
  marked,    \* those whose sent_at is set
  mailLog,   \* [keys -> status of the comms_delivery_logs row], "NONE" without a row
  mails,     \* history: [keys -> Nat], messages the provider accepted
  stories,   \* history: what they said, and the instant of the run that said it
  starts

reminderVars == <<job, reminder, marked, mailLog, mails, stories, starts>>
remindersAll == <<operatingVars, reminderVars>>

ReminderType == {"GRACE_EXPIRING", "SUBSCRIPTION_DUE"}

\* The date that now.Format makes of an instant.
DayOf(now) == now \div DayLength

\* The unique key of a reminder, which is also the idempotency key of its mail.
Key == [vendor : Vendors, type : ReminderType, day : 0..DayOf(LastInstant)]

ASSUME ReminderAssumption == DayLength \in Nat \ {0} /\ None \notin Key

NoJob == [at |-> "off", now |-> 0, todo |-> {}, key |-> None, ok |-> FALSE]

ReminderInit ==
  /\ OperatingInit
  /\ job = [r \in Runs |-> NoJob]
  /\ reminder = {} /\ marked = {}
  /\ mailLog = [k \in Key |-> "NONE"]
  /\ mails = [k \in Key |-> 0]
  /\ stories = {}
  /\ starts = 0

-----------------------------------------------------------------------------

\* Full days overdue on which a reminder is due: the first three, then every second.
Reminded(days) == days < 3 \/ days % 2 = 0

BugChooseReminderAnyGrace(v, now) ==
  IF \E g \in grace : IsActive(g, v, now)
  THEN {"GRACE_EXPIRING"}
  ELSE {"SUBSCRIPTION_DUE" : days \in {d \in {(now - account[v].end) \div DayLength} : Reminded(d)}}

\* What chooseReminder makes of vendor v's row, as read: no type at all, or one.
chooseReminder(v, now) ==
  LET rows == {g \in grace : IsActive(g, v, now)} IN
  IF rows # {}
  THEN {"GRACE_EXPIRING" : g \in {r \in rows : r.ends - now <= DayLength}}
  ELSE {"SUBSCRIPTION_DUE" : days \in {d \in {(now - account[v].end) \div DayLength} : Reminded(d)}}

\* dueCandidates, one query, and the reminder each candidate is due.
DueReminders(now) ==
  UNION {{[vendor |-> v, type |-> t, day |-> DayOf(now)] : t \in chooseReminder(v, now)} :
           v \in {u \in Vendors : Eligible(account[u], now)}}

StartRun(r) ==
  /\ job[r] = NoJob /\ starts < MaxStarts
  /\ starts' = starts + 1
  /\ job' = [job EXCEPT ![r] = [NoJob EXCEPT !.at = "next", !.now = present, !.todo = DueReminders(present)]]
  /\ UNCHANGED <<operatingVars, reminder, marked, mailLog, mails, stories>>

At(r, at) == job[r].at = at
Go(r, at) == job' = [job EXCEPT ![r].at = at]

\* reserveReminder inserts the row, or reads the one that is there.
reserveReminder(r) ==
  /\ At(r, "next")
  /\ \E k \in job[r].todo :
       /\ reminder' = reminder \cup {k}
       /\ job' = [job EXCEPT ![r].todo = @ \ {k}, ![r].key = k,
                             ![r].at = IF k \in marked THEN "next" ELSE "lookup"]
  /\ UNCHANGED <<operatingVars, marked, mailLog, mails, stories, starts>>

\* Send: a log of the key is the answer, whatever its status.
LookupLog(r) ==
  /\ At(r, "lookup")
  /\ Go(r, CASE mailLog[job[r].key] = "NONE" -> "create"
             [] mailLog[job[r].key] = "SENT" -> "mark"
             [] OTHER -> "next")
  /\ UNCHANGED <<operatingVars, reminder, marked, mailLog, mails, stories, starts>>

BugCreateMailLogTwice(r) ==
  /\ At(r, "create")
  /\ mailLog' = [mailLog EXCEPT ![job[r].key] = "PENDING"]
  /\ Go(r, "send")
  /\ UNCHANGED <<operatingVars, reminder, marked, mails, stories, starts>>

\* The key is unique: the slower of two runs is refused, and goes on.
CreateMailLog(r) ==
  LET free == mailLog[job[r].key] = "NONE" IN
  /\ At(r, "create")
  /\ mailLog' = IF free THEN [mailLog EXCEPT ![job[r].key] = "PENDING"] ELSE mailLog
  /\ Go(r, IF free THEN "send" ELSE "next")
  /\ UNCHANGED <<operatingVars, reminder, marked, mails, stories, starts>>

\* What the mail of run r says, at the instant the run began.
Said(r) == [vendor |-> job[r].key.vendor, type |-> job[r].key.type, at |-> job[r].now]

\* The mail provider, external: nil is the adapter's answer, and a mail may go
\* out although the answer is an error.
SendMail(r, accepted, nil) ==
  /\ At(r, "send")
  /\ nil => accepted
  /\ mails' = [mails EXCEPT ![job[r].key] = IF accepted THEN @ + 1 ELSE @]
  /\ stories' = IF accepted THEN stories \cup {Said(r)} ELSE stories
  /\ job' = [job EXCEPT ![r].at = "log", ![r].ok = nil]
  /\ UNCHANGED <<operatingVars, reminder, marked, mailLog, starts>>

\* The log is updated, or is not, which Send ignores; only a sent mail is marked.
LogMail(r, stored) ==
  /\ At(r, "log")
  /\ mailLog' = IF stored THEN [mailLog EXCEPT ![job[r].key] = IF job[r].ok THEN "SENT" ELSE "FAILED"]
                ELSE mailLog
  /\ Go(r, IF job[r].ok THEN "mark" ELSE "next")
  /\ UNCHANGED <<operatingVars, reminder, marked, mails, stories, starts>>

MarkSent(r) ==
  /\ At(r, "mark")
  /\ marked' = marked \cup {job[r].key}
  /\ Go(r, "next")
  /\ UNCHANGED <<operatingVars, reminder, mailLog, mails, stories, starts>>

\* The run ends with its list, on a failed statement, or is killed.
EndRun(r) ==
  /\ job[r] # NoJob
  /\ job' = [job EXCEPT ![r] = NoJob]
  /\ UNCHANGED <<operatingVars, reminder, marked, mailLog, mails, stories, starts>>

\* What billing does to a subscription; to the job every status but PAST_DUE is alike.
Billing(v) ==
  \/ Subscribe(v)
  \/ \E s \in {"ACTIVE", "PAST_DUE"} : ChangeStatus(v, s)
  \/ PayCheckout(v)

ReminderNext ==
  \/ \E v \in Vendors :
       /\ \/ present <= LastBill /\ Billing(v)
          \/ \E c \in Calls : GetCompliance(c, v, "grace")
       /\ UNCHANGED reminderVars
  \/ \E c \in Calls : (GetSubscription(c) \/ RequestGrace(c)) /\ UNCHANGED reminderVars
  \/ ClockAdvances /\ UNCHANGED reminderVars
  \/ \E r \in Runs :
       \/ StartRun(r) \/ reserveReminder(r) \/ LookupLog(r) \/ CreateMailLog(r)
       \/ \E accepted, nil \in BOOLEAN : SendMail(r, accepted, nil)
       \/ \E stored \in BOOLEAN : LogMail(r, stored)
       \/ MarkSent(r) \/ EndRun(r)

ReminderSpec == ReminderInit /\ [][ReminderNext]_remindersAll

-----------------------------------------------------------------------------

\* A vendor is mailed at most once per reminder and day, and exactly once if the
\* reminder is marked sent, however many runs of the day overlap, die between the
\* mail and its record, or lose the record.
OneMailPerReminder ==
  \A k \in Key : mails[k] <= 1 /\ (k \in marked => k \in reminder /\ mails[k] = 1)

\* A vendor who is told on one day both that the grace period is about to end and that
\* the subscription is due (the keys differ, so both go out) is told so by two runs, the
\* first before that grace period ended and the second after: no grace period that is
\* granted, expires or is marked while a run works through its list makes a run, or two
\* of the same instant, contradict one another.
StoryFollowsGrace ==
  \A s, t \in stories :
    /\ s.vendor = t.vendor /\ DayOf(s.at) = DayOf(t.at)
    /\ s.type = "GRACE_EXPIRING" /\ t.type = "SUBSCRIPTION_DUE"
    => \E g \in grace : g.vendor = s.vendor /\ s.at < g.ends /\ g.ends <= t.at
=============================================================================
