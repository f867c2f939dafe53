----------------------------- MODULE MCClients -----------------------------
(***************************************************************************)
(* The tokens of a browser, the inbox on its pages and an order's page     *)
(* share no variable: part picks the one that a behaviour is about, so     *)
(* that one run checks each of them by itself, under its own fairness.     *)
(***************************************************************************)
EXTENDS TabTokens, Poller, Screens, TLC

CONSTANTS w1, w2, c1, c2, c3

MCTabOf == c1 :> w1 @@ c2 :> w1 @@ c3 :> w2

VARIABLE part

clientVars == <<part, tabVars, pollerVars, screenVars>>

ClientsInit ==
  /\ part \in {"tabs", "poller", "screens"}
  /\ TabsInit /\ PollerInit
  /\ ScreensInit /\ (part # "screens" => role = "customer")

Tabbed(A) == part = "tabs" /\ A /\ UNCHANGED <<part, pollerVars, screenVars>>
Polling(A) == part = "poller" /\ A /\ UNCHANGED <<part, tabVars, screenVars>>
Watching(A) == part = "screens" /\ A /\ UNCHANGED <<part, tabVars, pollerVars>>

ClientsNext == Tabbed(TabsNext) \/ Polling(PollerNext) \/ Watching(ScreensNext)

\* TabsFairness, PollerFairness and ScreensFairness, each in its part.
ClientsFairness ==
  /\ \A w \in Tabs : WF_clientVars(Tabbed(RefreshStep(w)))
  /\ \A c \in Calls : WF_clientVars(Tabbed(CallStep(c)))
  /\ \A k \in Polls : /\ WF_clientVars(Polling(Tick(k)))
                      /\ WF_clientVars(Polling(PollStep(k)))
  /\ \A k \in Reads : /\ WF_clientVars(Watching(PollOrder(k)))
                      /\ WF_clientVars(Watching(ShowOrder(k) \/ ReadLost(k)))
  /\ SF_clientVars(\/ Polling(\E k \in Polls : Counted(k))
                   \/ Watching(\E k \in Reads : ShowOrder(k)))

ClientsSpec == ClientsInit /\ [][ClientsNext]_clientVars /\ ClientsFairness

-----------------------------------------------------------------------------
\* What tabs and pages keep has its types.
ClientsTypeOK == TabsTypeOK /\ PollerTypeOK /\ ScreensTypeOK

\* Pages that poll come to show what the server holds: the badge of the
\* inbox and the status of an order.
PagesConverge ==
  /\ part = "poller" => BadgeConverges
  /\ part = "screens" => ScreenConverges

=============================================================================
