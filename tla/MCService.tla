------------------------------ MODULE MCService ------------------------------
(* The parts of the service that share no state, checked in one run: each    *)
(* behaviour is one of a single part, "part", while the others stand still.  *)
EXTENDS Ingress, RateLimiter, Faq, Attachments, Migrations, WorkHours

VARIABLE part

serviceVars == <<vars, limiterVars, faqVars, attachmentVars, migrationVars,
                 hoursVars, part>>

\* The parts with a choice of initial states make it when it is their turn.
ServiceInit ==
    /\ Init /\ LimiterInit /\ FaqInit /\ AttachmentInit /\ MigrationInit /\ HoursInit
    /\ part \in {"ingress", "limiter", "faq", "attachments", "migrations", "hours"}
    /\ part # "attachments" => original = <<>> /\ ~place
    /\ part # "hours" => workHours = [start |-> 0, end |-> 1]

ServiceNext ==
    /\ UNCHANGED part
    /\ IF part = "ingress" THEN Next ELSE UNCHANGED vars
    /\ IF part = "limiter" THEN LimiterNext ELSE UNCHANGED limiterVars
    /\ IF part = "faq" THEN FaqNext ELSE UNCHANGED faqVars
    /\ IF part = "attachments" THEN AttachmentNext ELSE UNCHANGED attachmentVars
    /\ IF part = "migrations" THEN MigrationNext ELSE UNCHANGED migrationVars
    /\ IF part = "hours" THEN HoursNext ELSE UNCHANGED hoursVars

ServiceSpec ==
    ServiceInit /\ [][ServiceNext]_serviceVars /\ Fairness /\ MigrationFairness

\* Types of all the parts.
ServiceTypeOK ==
    TypeOK /\ LimiterTypeOK /\ FaqTypeOK /\ AttachmentTypeOK /\ MigrationTypeOK /\ HoursTypeOK
=============================================================================
