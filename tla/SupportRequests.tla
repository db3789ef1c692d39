----------------------------- MODULE SupportRequests -----------------------------
(* Support requests: written down first, then handed to Discord and to Telegram   *)
(* by a request that fails, is answered late or dies between any two statements   *)
(* (internal/handlers/support_*.go).                                              *)
EXTENDS Naturals, FiniteSets

CONSTANTS
  Report,          \* requests that may be made; some run at the same moment
  Says,            \* what each may say: its category, who sends it and whether it has an image
  AnonymousCap     \* maxAnonymousSupportRequestsPerHour; everything here is in one hour

VARIABLES
  supportSetup,    \* which sinks are configured, the admin's id, and the topics that exist
  report,          \* the request: what it says and how far its handler is
  supportRow,      \* support_requests
  seen             \* what each place has received: sets of <<place, "details" | "image">>

supportVars == <<supportSetup, report, supportRow, seen>>

NoReport == [pc |-> "new", category |-> "bug", anonymous |-> TRUE, shot |-> FALSE, fallback |-> FALSE]
NoRow == [stands |-> FALSE, discord |-> FALSE, topic |-> FALSE, fallback |-> FALSE, admin |-> FALSE]

SupportInit ==
  /\ supportSetup \in [discord : BOOLEAN, telegram : BOOLEAN, admin : BOOLEAN, topic : BOOLEAN]
  /\ ~supportSetup.telegram => ~supportSetup.admin /\ ~supportSetup.topic
  /\ report = [r \in Report |-> NoReport] /\ supportRow = [r \in Report |-> NoRow] /\ seen = [r \in Report |-> {}]

ReportGoes(r, pc) == report' = [report EXCEPT ![r].pc = pc]
Posts(r, place, what) == seen' = [seen EXCEPT ![r] = @ \cup {<<place, what>>}]

DiscordTakesAll(sink, category) == TRUE \* mutant
Handles(sink, category) == sink = "discord" => category # "kyc"
Takes(r, sink) == supportSetup[sink] /\ Handles(sink, report[r].category)

\* Who sends it is read from the token; a bad token is nobody, who is counted first.
identify(r, category, anonymous, shot) ==
  /\ report[r].pc = "new"
  /\ report' = [report EXCEPT ![r] = [pc |-> IF anonymous THEN "count" ELSE "insert", category |-> category,
                                      anonymous |-> anonymous, shot |-> shot, fallback |-> FALSE]]
  /\ UNCHANGED <<supportSetup, supportRow, seen>>

\* Counted from the table and not under a lock; a count that fails lets the request in.
CountAnonymous(r, fails) ==
  /\ report[r].pc = "count"
  /\ LET recent == Cardinality({q \in Report : supportRow[q].stands /\ report[q].anonymous}) IN
     ReportGoes(r, IF ~fails /\ recent >= AnonymousCap THEN "refused" ELSE "insert")
  /\ UNCHANGED <<supportSetup, supportRow, seen>>

\* The one statement whose failure the reporter is told of.
Create(r, fails) ==
  /\ report[r].pc = "insert"
  /\ IF fails THEN ReportGoes(r, "refused") /\ UNCHANGED supportRow
     ELSE ReportGoes(r, "discord") /\ supportRow' = [supportRow EXCEPT ![r].stands = TRUE]
  /\ UNCHANGED <<supportSetup, seen>>

-----------------------------------------------------------------------------
(* The fan-out. A call is refused, or done, or done and its answer is lost.    *)

Answer == {"refused", "done", "lost"}

\* A sink that is not configured, or not for this category, is passed by; Discord's sink
\* asks once more. The image goes with the message.
DeliverDiscord(r, answer) ==
  /\ report[r].pc = "discord"
  /\ IF ~Takes(r, "discord") THEN answer = "refused" /\ ReportGoes(r, "telegram") /\ UNCHANGED seen
     ELSE /\ ReportGoes(r, IF answer = "done" THEN "markDiscord" ELSE "telegram")
          /\ seen' = IF answer = "refused" THEN seen
                     ELSE [seen EXCEPT ![r] = @ \cup {<<"discord", "details">>}
                             \cup (IF report[r].shot THEN {<<"discord", "image">>} ELSE {})]
  /\ UNCHANGED <<supportSetup, supportRow>>

\* Telegram's sink: the admin's own chat for an identity check, a topic for the rest.
DeliverTelegram(r) ==
  /\ report[r].pc = "telegram"
  /\ ReportGoes(r, IF ~Takes(r, "telegram") THEN "finished"
                   ELSE IF report[r].category = "kyc" THEN IF supportSetup.admin THEN "admin" ELSE "finished"
                   ELSE IF supportSetup.topic THEN "topic" ELSE "general")
  /\ UNCHANGED <<supportSetup, supportRow, seen>>

\* sendMessage to a place; what follows depends on where and on the answer.
SendTo(r, place, answer, done, failed) ==
  /\ IF answer = "refused" THEN UNCHANGED seen ELSE Posts(r, place, "details")
  /\ report' = [report EXCEPT ![r].pc = IF answer = "done" THEN done ELSE failed, ![r].fallback = place = "general"]
  /\ UNCHANGED <<supportSetup, supportRow>>

deliverKYCToAdmin(r, answer) == report[r].pc = "admin" /\ SendTo(r, "admin", answer, "image", "finished")

\* A topic that is gone, or that only seems to be, sends the report to General.
deliverToTopic(r, answer) == report[r].pc = "topic" /\ SendTo(r, "topic", answer, "image", "general")
fallBackToGeneral(r, answer) == report[r].pc = "general" /\ SendTo(r, "general", answer, "image", "finished")

ImageWithItsReport(r, answer) == \* mutant
  /\ report[r].pc = "image" /\ ReportGoes(r, "markTelegram")
  /\ IF report[r].shot /\ answer # "refused"
     THEN Posts(r, IF report[r].category = "kyc" THEN "admin" ELSE IF report[r].fallback THEN "general" ELSE "topic", "image")
     ELSE UNCHANGED seen
  /\ UNCHANGED <<supportSetup, supportRow>>

\* The image goes to the admin in any case, as a photo, then as a file; whatever comes
\* of it, the report has been delivered.
attachScreenshot(r, answer) ==
  /\ report[r].pc = "image" /\ ReportGoes(r, "markTelegram")
  /\ IF report[r].shot /\ supportSetup.admin /\ answer # "refused" THEN Posts(r, "admin", "image") ELSE UNCHANGED seen
  /\ UNCHANGED <<supportSetup, supportRow>>

Stamp(r, pc, row, done) == report[r].pc = pc /\ ReportGoes(r, done) /\ supportRow' = [supportRow EXCEPT ![r] = row]

\* The stamp of the column this sink has for this category; a stamp that fails is logged,
\* and there is no row to stamp once the reporter's account has been erased.
markDelivered(r, fails) ==
  /\ LET row == supportRow[r]  done == row.stands /\ ~fails IN
     \/ Stamp(r, "markDiscord", [row EXCEPT !.discord = done], "telegram")
     \/ Stamp(r, "markTelegram",
              IF report[r].category = "kyc" THEN [row EXCEPT !.admin = done]
              ELSE [row EXCEPT !.topic = done, !.fallback = done /\ report[r].fallback], "finished")
  /\ UNCHANGED <<supportSetup, seen>>

\* Nothing resumes it: the index of undelivered rows has no reader.
SupportRequestDies(r) ==
  /\ report[r].pc \notin {"new", "refused", "finished"} /\ ReportGoes(r, IF supportRow[r].stands THEN "finished" ELSE "refused")
  /\ UNCHANGED <<supportSetup, supportRow, seen>>

EraseSupportRow(r) ==
  /\ supportRow[r].stands /\ ~report[r].anonymous /\ supportRow' = [supportRow EXCEPT ![r] = NoRow]
  /\ UNCHANGED <<supportSetup, report, seen>>

SupportNext ==
  \E r \in Report :
    \/ \E s \in Says[r] : identify(r, s.category, s.anonymous, s.shot)
    \/ \E fails \in BOOLEAN : CountAnonymous(r, fails) \/ Create(r, fails) \/ markDelivered(r, fails)
    \/ \E answer \in Answer : \/ DeliverDiscord(r, answer) \/ deliverKYCToAdmin(r, answer) \/ deliverToTopic(r, answer)
                              \/ fallBackToGeneral(r, answer) \/ attachScreenshot(r, answer)
    \/ DeliverTelegram(r) \/ SupportRequestDies(r) \/ EraseSupportRow(r)

SupportSpec == SupportInit /\ [][SupportNext]_supportVars

-----------------------------------------------------------------------------
supportDiscordDelivered(r) == report[r].category = "kyc" \/ supportRow[r].discord
supportTelegramDelivered(r) == IF report[r].category = "kyc" THEN supportRow[r].admin ELSE supportRow[r].topic
supportFullyDelivered(r) == supportDiscordDelivered(r) /\ supportTelegramDelivered(r)

\* What Mine tells the reporter: delivered_to_team.
DeliveredToTeam(r) == supportRow[r].discord \/ supportRow[r].topic \/ supportRow[r].admin

Saw(r, place) == <<place, "details">> \in seen[r]

\* A question about an identity check reaches the admin's own chat and no place else, no
\* image reaches the group, and however calls are lost, repeated or cut short, a report
\* counted as delivered was seen at each place its category has, the group's General
\* thread only where the row says so.
DeliveredAsStamped ==
  \A r \in Report :
    /\ report[r].category = "kyc" => \A post \in seen[r] : post[1] = "admin"
    /\ \A post \in seen[r] : post[2] = "image" => post[1] \notin {"topic", "general"}
    /\ DeliveredToTeam(r) => \E place \in {"discord", "topic", "general", "admin"} : Saw(r, place)
    /\ supportFullyDelivered(r) =>
         IF report[r].category = "kyc" THEN Saw(r, "admin")
         ELSE Saw(r, "discord") /\ Saw(r, IF supportRow[r].fallback THEN "general" ELSE "topic")
=============================================================================
