---------------------------- MODULE ApprovalAbuse ----------------------------
(***************************************************************************)
(* The Approval Abuse checker                                              *)
(* (crates/ciel-checkers/src/approval_abuse.rs): unlimited token approvals *)
(* to delegates outside the registry, unless a Revoke of the same source   *)
(* account comes later in the call graph.                                  *)
(***************************************************************************)
EXTENDS AuthorityDiff

SplToken == {"SPL_TOKEN", "SPL_TOKEN_2022"}

\* The position of the delegate among the accounts: ApproveChecked names the
\* mint before it.
DelegateAt(call) == IF call.op = "ApproveChecked" THEN 3 ELSE 2

\* Whether a call is an approval the checker cares about.
inspect_approve(call) ==
    /\ call.program \in SplToken
    /\ call.op \in {"Approve", "ApproveChecked"}
    /\ Len(call.accounts) >= DelegateAt(call)
    /\ call.unlimited
    /\ call.accounts[DelegateAt(call)] \notin KnownProtocols

\* Mutant: a Revoke anywhere in the graph counts.
revoked_anywhere(graph, idx, source) ==
    \E j \in DOMAIN graph :
       /\ graph[j].call.program \in SplToken
       /\ graph[j].call.op = "Revoke"
       /\ graph[j].call.accounts # <<>> /\ graph[j].call.accounts[1] = source

revoked_after(graph, idx, source) ==
    \E j \in idx + 1 .. Len(graph) :
       /\ graph[j].call.program \in SplToken
       /\ graph[j].call.op = "Revoke"
       /\ graph[j].call.accounts # <<>> /\ graph[j].call.accounts[1] = source

\* The calls that are flagged.
ApprovalFlags(graph) ==
    {i \in DOMAIN graph : /\ inspect_approve(graph[i].call)
                          /\ ~revoked_after(graph, i, graph[i].call.accounts[1])}

approval_check(graph) ==
    [passed   |-> ApprovalFlags(graph) = {},
     severity |-> IF ApprovalFlags(graph) = {} THEN "None" ELSE "High"]
=============================================================================
