------------------------------- MODULE MCSupport -------------------------------
(***************************************************************************)
(* The machines that do not interact with each other, in one run: `part`   *)
(* says which of them moves, the others stay where they begin.             *)
(***************************************************************************)
EXTENDS Alerts, LiveTest, MediaAdoption, PhoneNumbers, Realtime, RechargePackages, SendingWindow

VARIABLE part

MCArrivals == {180, 181, 500, 659, 660, 661, 1379, 1380, 1381, 1439, 1440}
MCAmounts == {1000, 1009, 2000, 4999, 5000, 9999, 10000, 29999, 30000, 49999, 50000, 9999999, 10000000}
MCAreaCodes == {<<1, 1>>, <<5, 5>>, <<8, 1>>}
MCSubscribers == {<<9, 8, 7, 6, 5, 4, 3, 2>>, <<3, 2, 1, 0, 0, 0, 0, 0>>, <<5, 5, 5, 5, 5, 5, 5, 5>>}

Parts == {"alerts", "test", "media", "phones", "packages", "channel", "window"}

Init ==
    /\ part \in Parts
    /\ AlertsInit /\ TestInit /\ MediaInit /\ PhonesInit /\ PackagesInit /\ RealtimeInit /\ WindowInit
    /\ part # "channel" => ~signedIn

Next ==
    \/ part = "alerts" /\ AlertsNext /\ UNCHANGED <<part, testVars, mediaVars, phoneVars, packageVars, realtimeVars, windowVars>>
    \/ part = "test" /\ TestNext /\ UNCHANGED <<part, alertVars, mediaVars, phoneVars, packageVars, realtimeVars, windowVars>>
    \/ part = "media" /\ MediaNext /\ UNCHANGED <<part, alertVars, testVars, phoneVars, packageVars, realtimeVars, windowVars>>
    \/ part = "phones" /\ PhonesNext /\ UNCHANGED <<part, alertVars, testVars, mediaVars, packageVars, realtimeVars, windowVars>>
    \/ part = "packages" /\ PackagesNext /\ UNCHANGED <<part, alertVars, testVars, mediaVars, phoneVars, realtimeVars, windowVars>>
    \/ part = "channel" /\ RealtimeNext /\ UNCHANGED <<part, alertVars, testVars, mediaVars, phoneVars, packageVars, windowVars>>
    \/ part = "window" /\ WindowNext /\ UNCHANGED <<part, alertVars, testVars, mediaVars, phoneVars, packageVars, realtimeVars>>

\* Only the alerts have a liveness property; their fairness holds when it is their turn.
Spec ==
    /\ Init
    /\ [][Next]_<<part, alertVars, testVars, mediaVars, phoneVars, packageVars, realtimeVars, windowVars>>
    /\ part = "alerts" => AlertsFairness
=============================================================================
