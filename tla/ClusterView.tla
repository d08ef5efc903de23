----------------------------- MODULE ClusterView -----------------------------
(***************************************************************************)
(* What the collector promises its caller, whatever the interleaving of    *)
(* its workers: Collect hands out one snapshot at a time, and in it        *)
(*   - exactly the requested keys carry a fetch status,                    *)
(*   - a key whose status is "ok" comes with the whole list,               *)
(*   - in a cluster-wide run the two Pod views are one and the same fetch. *)
(* The module Collect implements it.                                       *)
(***************************************************************************)
CONSTANTS
    Keys,           \* keys of the task table other than "all_pods"
    ListResults,    \* what a list call may return: [pages, whole, err] records
    NoView          \* no snapshot is in the caller's hands

VARIABLES
    clusterWide,    \* the run covers every namespace (Config.Namespace = "")
    only,           \* Collector.Only: the requested keys, {} for every key
    view            \* the snapshot the caller holds, or NoView

AllKeys == Keys \union {"all_pods"}

Wants(key) == only = {} \/ key \in only

Statuses == {"none", "ok", "notfound", "error"}

\* The snapshots the collector may hand out.
Honest(v) ==
    /\ \A key \in AllKeys : v.status[key] # "none" <=> Wants(key)
    /\ \A key \in AllKeys : v.status[key] = "ok" => v.field[key].whole
    /\ (clusterWide /\ Wants("pods") /\ Wants("all_pods")) =>
            /\ v.status["all_pods"] = v.status["pods"]
            /\ v.field["all_pods"] = v.field["pods"]

Views == [status : [AllKeys -> Statuses], field : [AllKeys -> ListResults]]

Init ==
    /\ clusterWide \in BOOLEAN
    /\ only \in SUBSET AllKeys
    /\ view = NoView

HandOut ==
    /\ view = NoView
    /\ view' \in Views
    /\ Honest(view')
    /\ UNCHANGED <<clusterWide, only>>

StartOver ==
    /\ view # NoView
    /\ view' = NoView
    /\ UNCHANGED <<clusterWide, only>>

vars == <<clusterWide, only, view>>

Next == HandOut \/ StartOver

Spec == Init /\ [][Next]_vars
=============================================================================
