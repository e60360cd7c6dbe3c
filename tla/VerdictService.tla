--------------------------- MODULE VerdictService ---------------------------
(***************************************************************************)
(* What the verdict pipeline promises its callers and its auditors: every  *)
(* request ends once, with a signed verdict, an error or no answer; the    *)
(* journal holds verdicts that were issued, unchanged, and never a         *)
(* TIMEOUT; no verdict issued under a poisoned fork rests on it.           *)
(***************************************************************************)
CONSTANTS Requests, Verdicts, NotSigned
\* Verdicts: what an attestation may say; NotSigned: no attestation was issued.

VARIABLES phase,       \* per request: idle, pending, judged, attested, error, dropped
          issued,      \* per request: the attestation its caller holds
          journal,     \* <<request, attestation>> pairs in the verdict log
          broken       \* the simulator is unusable for good

serviceVars == <<phase, issued, journal, broken>>

ServiceInit ==
    /\ phase = [r \in Requests |-> "idle"]
    /\ issued = [r \in Requests |-> NotSigned]
    /\ journal = {}
    /\ broken = FALSE

Submit(r) ==
    /\ phase[r] = "idle"
    /\ phase' = [phase EXCEPT ![r] = "pending"]
    /\ UNCHANGED <<issued, journal, broken>>

\* The transaction was simulated: from here the verdict no longer needs the fork.
Judge(r) ==
    /\ phase[r] = "pending" /\ ~broken
    /\ phase' = [phase EXCEPT ![r] = "judged"]
    /\ UNCHANGED <<issued, journal, broken>>

\* The judgement was not finished in time and is thrown away.
Discard(r) ==
    /\ phase[r] = "judged"
    /\ phase' = [phase EXCEPT ![r] = "pending"]
    /\ UNCHANGED <<issued, journal, broken>>

\* A verdict needs a judgement, a TIMEOUT a working fork.
Attest(r) ==
    /\ issued'[r].verdict \in Verdicts
    /\ IF issued'[r].verdict = "TIMEOUT" THEN phase[r] = "pending" /\ ~broken
                                         ELSE phase[r] = "judged"
    /\ phase' = [phase EXCEPT ![r] = "attested"]
    /\ issued' = [issued EXCEPT ![r] = issued'[r]]
    /\ UNCHANGED <<journal, broken>>

GiveUp(r, how) ==
    /\ phase[r] \in {"pending", "judged"}
    /\ phase' = [phase EXCEPT ![r] = how]
    /\ broken' \in {broken, TRUE}
    /\ UNCHANGED <<issued, journal>>

Record(r) ==
    /\ phase[r] = "attested"
    /\ issued[r].verdict # "TIMEOUT"
    /\ journal' = journal \cup {<<r, issued[r]>>}
    /\ UNCHANGED <<phase, issued, broken>>

ServiceNext ==
    \E r \in Requests :
        \/ Submit(r) \/ Judge(r) \/ Discard(r) \/ Attest(r) \/ Record(r)
        \/ \E how \in {"error", "dropped"} : GiveUp(r, how)

ServiceSpec == ServiceInit /\ [][ServiceNext]_serviceVars
=============================================================================
