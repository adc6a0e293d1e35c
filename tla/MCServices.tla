----------------------------- MODULE MCServices -----------------------------
(* Five services of the API and its workers side by side, one of which runs: *)
(* the email outbox, a run of an automation, the inbox screen with its feed, *)
(* the ingress of provider deliveries, and the rounds of an outbound worker. *)
(* scene says which; the variables of the others keep their first values,    *)
(* and only it is scheduled fairly.                                          *)
EXTENDS EmailOutbox, Ingress, Automations, Screen, Fairness, TLC

CONSTANTS a, b, q, d1, d2

VARIABLE scene

\* A wait before the message, one after it, and a step that follows.
Workflow == <<"delay", "send", "delay", "label">>

\* d1 is one part with two facts; d2 has them the other way round, and a
\* second part with something no adapter reads.
Posted == [d \in Delivery |-> IF d = d1 THEN <<<<a, b>>>> ELSE <<<<b, a>>, <<q>>>>]

\* The companies are numbered in the order of tenant_id.
InOrder == [c \in Company |-> c]

ASSUME EmailAssumption
ASSUME AutomationsAssumption
ASSUME ScreenAssumption
ASSUME IngressAssumption
ASSUME FairnessAssumption

ServicesInit ==
  /\ scene \in {"email", "automations", "screen", "ingress", "rounds"}
  /\ EmailInit /\ AutomationsInit /\ ScreenInit /\ IngressInit
  /\ FairnessInit

ServicesNext ==
  \/ scene = "email" /\ EmailNext /\ UNCHANGED <<scene, automationVars, screenVars, ingressVars, fairnessVars>>
  \/ scene = "automations" /\ AutomationsNext /\ UNCHANGED <<scene, emailVars, screenVars, ingressVars, fairnessVars>>
  \/ scene = "screen" /\ ScreenNext /\ UNCHANGED <<scene, emailVars, automationVars, ingressVars, fairnessVars>>
  \/ scene = "ingress" /\ IngressNext /\ UNCHANGED <<scene, emailVars, automationVars, screenVars, fairnessVars>>
  \/ scene = "rounds" /\ FairnessNext /\ UNCHANGED <<scene, emailVars, automationVars, screenVars, ingressVars>>

\* The fairness of each service, where it is the one that runs.
ServicesFairness ==
  /\ \A w \in Mailer : WF_emailVars(scene = "email" /\ MailerWorks(w))
  /\ \A e \in Email : /\ WF_emailVars(scene = "email" /\ BackoffEnds(e))
                       /\ WF_emailVars(scene = "email" /\ On(e) = {} /\ LeaseEnds(e))
  /\ WF_automationVars(scene = "automations" /\ (PlanRun \/ Execute))
  /\ WF_automationVars(scene = "automations" /\ LookAgain)
  /\ \A c \in Contact :
       /\ WF_automationVars(scene = "automations" /\ WaitEnds(c))
       /\ WF_automationVars(scene = "automations" /\ Decided(c))
  /\ WF_screenVars(scene = "screen" /\ Page)
  /\ WF_screenVars(scene = "screen" /\ Browser)
  /\ WF_screenVars(scene = "screen" /\ (AnswerFlight \/ ApplyFlight))
  /\ WF_screenVars(scene = "screen" /\ (AnswerScreen \/ ApplyScreen))
  /\ \A d \in Delivery :
       SF_ingressVars(scene = "ingress" /\ d \notin answered /\ \E h \in Handler : Post(h, d))
  /\ \A h \in Handler :
       /\ SF_ingressVars(scene = "ingress" /\ Insert(h))
       /\ WF_ingressVars(scene = "ingress" /\ StorePart(h))
       /\ WF_ingressVars(scene = "ingress" /\ \E g \in Handler : Deadlocked(h, g))
  /\ \A w \in Drainer : WF_ingressVars(scene = "ingress" /\ (Claim(w) \/ Drain(w)))
  /\ WF_fairnessVars(scene = "rounds" /\ Work)

ServicesSpec ==
  /\ ServicesInit
  /\ [][ServicesNext]_<<scene, emailVars, automationVars, screenVars, ingressVars, fairnessVars>>
  /\ ServicesFairness

\* Every variable of the five services has its declared type.
ServicesTypeOK ==
  EmailTypeOK /\ AutomationsTypeOK /\ ScreenTypeOK /\ IngressTypeOK
  /\ FairnessTypeOK

\* The lists come to include every event, but for the two gaps ListsCatchUp
\* names (realtime.service page, live/realtime.ts, singleFlight).
ScreenCatchesUp == scene = "screen" => ListsCatchUp

\* What the provider has to say reaches the inbox (ingress.service receive,
\* normalization.service drain).
FactsComeIn == scene = "ingress" => EveryFactProjected
=============================================================================
