------------------------------ MODULE MCService ------------------------------
(* Ways to serve: the web UI beside a collector of two contexts, the API with MCP, *)
(* the app beside a collector of one, and the MCP server alone with its client.    *)
(* "eu-shop" is a name of one cluster and abbreviates both; "shop" names both.    *)
EXTENDS Service, TLC

mcIdle == [clients |-> {}, inputs |-> {}, writes |-> 0, time |-> 0]
mcServing ==
  {[parts |-> <<"webui", "watch">>, contexts |-> [dev |-> {"pods", "jobs"}, prod |-> {"pods"}]],
   [parts |-> <<"api", "mcp">>, contexts |-> <<>>],
   [parts |-> <<"watch", "app">>, contexts |-> [dev |-> {"pods"}]]}
mcSelections ==
  {served @@ mcIdle : served \in mcServing} \cup
  {asking @@ [parts |-> <<"mcp">>, contexts |-> <<>>, clients |-> {"c1"}] : asking \in
    {[inputs |-> {"eu-shop"}, writes |-> 1, time |-> 0], [inputs |-> {"shop"}, writes |-> 1, time |-> 0],
     [inputs |-> {""}, writes |-> 2, time |-> 0], [inputs |-> {""}, writes |-> 0, time |-> 3]}}
mcExact == {<<"k1", "eu-shop">>, <<"k1", "shop">>, <<"k2", "shop">>}
mcFuzzy == {<<"k1", "eu-shop">>, <<"k2", "eu-shop">>}
==============================================================================
