------------------------------ MODULE MCConsole ------------------------------
(***************************************************************************)
(* What operators do and what they are told, for TLC, one part at a time:  *)
(* their edits under requests (HotReload) and beside each other, the form  *)
(* of a key, the pages over the usage history, and who may use them.  And  *)
(* the vault, and the restoring of a stream.  No two parts share a state.  *)
(***************************************************************************)
EXTENDS MCHotReload, History, Console, KeyForm, MCStreams, Vault

CONSTANTS g1, g2, k1, k2, email, v1, v2, n1, n2

VARIABLE console \* the part at work

mcUsage(model, status, input, cost, map) ==
    [model |-> model, connection |-> "c", endpoint |-> "chat", key_id |-> "vk-0", status |-> status,
     input_tokens |-> input, output_tokens |-> input, cost_usd |-> cost, pii |-> map # {}, pii_map |-> map]
mcUsages == {mcUsage("m", 200, {2}, {3}, {<<"EMAIL", 1>>, <<"IBAN", 1>>}), mcUsage("n", 500, {}, {}, {})}

mcDelivery == [replayOf |-> 0, status |-> "refused", ok |-> FALSE, attempt |-> 1, payload |-> "p"]

mcConns == <<"east", "west">>
mcServers == <<"docs", "git">>
mcShownKey == [key |-> "sk-1", connections |-> <<"east", "west">>, models |-> {<<"m">>}, mcp_servers |-> {<<"git">>},
               rate_limit |-> {<<1, 1>>}, budget |-> {}, allow_pii_bypass |-> TRUE]

\* Vault: two entities of one kind, so that suffixes run out.
mcGateways == {g1, g2}
mcMasterKeys == {k1, k2}
mcKinds == {email}
mcValues == {v1, v2}
mcSuffixes == {n1, n2}

\* Edits under requests leave the configuration page alone, edits beside each other
\* are of keys in one version, at one time.
UnderRequests == ChainNext /\ \A a \in Admins : \A f \in admin'[a].form : f.op # "save"
BesideOthers ==
    /\ Next
    /\ now' = now /\ req' = req
    /\ \A a \in Admins : \A d \in admin'[a].doc : Range(d.keys) \subseteq mcOneVersion

oneTool == [b \in Blocks |-> IF b = 0 THEN "text" ELSE "tool"]
ConsoleRunInit ==
    /\ console \in {"reload", "edits", "form", "history", "console", "vault", "stream"}
    /\ Init /\ HistoryInit /\ ConsoleInit /\ FormInit /\ VaultInit
    /\ StreamInit /\ (console # "stream" => format = "openai" /\ blockKind = oneTool)
    /\ console # "history" => store = "none"
    /\ console # "console" => signedIn

ConsoleRunNext ==
    /\ UNCHANGED console
    /\ \/ /\ \/ console = "reload" /\ UnderRequests
             \/ console = "edits" /\ BesideOthers
          /\ UNCHANGED <<historyVars, consoleVars, formVars, vaultVars, streamVars>>
       \/ /\ console = "history" /\ HistoryNext
          /\ UNCHANGED <<vars, consoleVars, formVars, vaultVars, streamVars>>
       \/ /\ console = "console" /\ ConsoleNext
          /\ UNCHANGED <<vars, historyVars, formVars, vaultVars, streamVars>>
       \/ /\ console = "form" /\ FormNext
          /\ UNCHANGED <<vars, historyVars, consoleVars, vaultVars, streamVars>>
       \/ /\ console = "vault" /\ VaultNext
          /\ UNCHANGED <<vars, historyVars, consoleVars, formVars, streamVars>>
       \/ /\ console = "stream" /\ StreamNext
          /\ UNCHANGED <<vars, historyVars, consoleVars, formVars, vaultVars>>

ConsoleRunSpec ==
    ConsoleRunInit
    /\ [][ConsoleRunNext]_<<console, vars, historyVars, consoleVars, formVars, vaultVars, streamVars>>
=============================================================================
