----------------------------- MODULE MCMinerClient -----------------------------
EXTENDS MinerClient, TLC
\* Forecasts that differ from attempt to attempt.
MCForecast(n) == 5000 + 100 * n
MCTasks == <<"daily", "fast">>
MCPacks == [baseline : {4900}, depth : {-2500, 7, 2500}, trade : {-2500, 0, 2501},
            micro : {-20, 0, 12, 20}, yes : {3}, no : {4}, q : {0, 4700, 5000, 5200},
            spread : {100, 5000}, volume24 : {100}, liquidity : {25000}]
MCAnswers == [raw : {1000, 4900, 5000, 5280, 6000, 9000}, confidence : {None, 50, 65, 80}]
MCStrong == ("depth" :> 2500) @@ ("trade" :> 2500) @@ ("micro" :> 15) @@ ("q" :> 5150)
=============================================================================
