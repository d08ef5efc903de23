----------------------------- MODULE MCSession -----------------------------
(***************************************************************************)
(* A terminal of 23 lines, which shows three of the four Pods of two       *)
(* namespaces; command lines that ask for a Pod, a replay, a report into   *)
(* files under several names, a watch, the guide and the editor; a few     *)
(* settings to edit.                                                       *)
(***************************************************************************)
EXTENDS Session, TLC

MCPods == 1..4
MCInNamespace == [n \in {"", "shop"} |-> IF n = "" THEN MCPods ELSE {2, 3, 4}]
MCNamespaceMatches == [t \in {"", "shop"} |-> IF t = "" THEN MCPods ELSE {2, 3, 4}]
MCNameMatches == [t \in {"", "api"} |-> IF t = "" THEN MCPods ELSE {1}]

\* link is a symbolic link to base and twin a hard link of it.
Paths == {"k8s-diagnose.ini", "base", "link", "twin", "out", "db", "~/db", "home/db",
          "pods", "everything"}
MCCanonical == [p \in Paths |-> IF p = "link" THEN "base" ELSE p]
MCHome == [p \in Paths |-> IF p = "~/db" THEN "home/db" ELSE p]
MCInode == [p \in {"base", "twin", "db", "home/db", "pods", "everything"} |->
              CASE p \in {"base", "twin"} -> 1 [] p = "db" -> 2 [] p = "home/db" -> 3
                [] p = "pods" -> 4 [] OTHER -> 5]
MCEntry == [p \in Paths |-> p]

MCSavedStates ==
    [p \in {"pods", "everything"} |->
        [namespace |-> IF p = "pods" THEN "shop" ELSE "",
         mode |-> IF p = "pods" THEN "select" ELSE "all",
         unused |-> FALSE, cluster |-> [i \in MCPods |-> 1]]]

Plain == [command |-> "", flags |-> <<>>, config |-> "", no_config |-> FALSE,
          opposites |-> FALSE, information |-> FALSE]
Word(command, flags) == [Plain EXCEPT !.command = command, !.flags = flags]

Screening ==
    {Plain, Word("config", <<>>)}

Choosing ==
    {Word("pod", [connect |-> TRUE, debug |-> TRUE]),
     Word("pod", [namespace |-> "shop", save_cluster_snapshot |-> "out"]),
     Word("all", [debug |-> TRUE, save_snapshot |-> "out"])}

Replays ==
    {Word("pod", [namespace |-> n, load_cluster_snapshot |-> "pods"]) : n \in {"", "shop"}}
    \union {Word("all", f @@ [load_cluster_snapshot |-> "everything"]) :
               f \in {<<>>, [diff |-> "base", webhook_url_env |-> "HOOK"], [history |-> "db"]}}

Reports ==
    {Word("ci", [baseline |-> "base", save_snapshot |-> p, output_file |-> "out"]) :
        p \in {"link", "twin", "out", "db"}}
    \union {Word("triage", [history |-> h, save_cluster_snapshot |-> "home/db"]) : h \in {"db", "~/db"}}
    \union {Word("triage", [history |-> "db", baseline |-> "twin", webhook_url_env |-> "HOOK"])}

Others ==
    {Word("list", <<>>), Word("triage", [watch |-> 60]), Word("quick", [mode |-> "all"]),
     [Plain EXCEPT !.flags = [mask_secrets |-> FALSE]],
     [Plain EXCEPT !.information = TRUE]}

Absent == [exists |-> FALSE, values |-> <<>>]
Holding(values) == [exists |-> TRUE, values |-> values]

\* The screens of the guide are entered with two settings files, the rest without.
MCStarts ==
    [line : Screening, terminal : {TRUE},
     ini : {Holding([history |-> "db", window |-> 6, flap_threshold |-> 2]),
            Holding([mode |-> "select", connect |-> TRUE])}]
    \union [line : Choosing \union Others, terminal : {TRUE}, ini : {Absent}]
    \union [line : Screening \union Replays \union Reports \union Others, terminal : {FALSE}, ini : {Absent}]

\* For the editor alone: one settings file and the settings of the history.
EditorStarts ==
    [line : {Word("config", <<>>)}, terminal : {TRUE},
     ini : {Holding([watch |-> 60, flap_threshold |-> 2])}]

EditorEntries ==
    [n \in Settings |->
        CASE n = "mode" -> {"all", "select"}
          [] n = "history" -> {"db"}
          [] n = "window" -> {3}
          [] OTHER -> {}]

MCEntries ==
    [n \in Settings |->
        CASE n = "mode" -> {"select"}
          [] n = "watch" -> {60}
          [] n = "history" -> {"db"}
          [] n = "window" -> {3}
          [] n = "connect" -> {TRUE}
          [] OTHER -> {}]
=============================================================================
