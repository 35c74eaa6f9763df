------------------------------ MODULE Authority ------------------------------
(* The authority contract of a blueprint step (hyops/authority): what each    *)
(* shipped provider can say of the time between two of its observations, and  *)
(* what the resolver makes of it.                                             *)
(*                                                                            *)
(* An authority is [uid, version, content].  Kubernetes sees the uid and the  *)
(* version of an object, Nautobot a digest of the content, NetBox neither.    *)
EXTENDS Integers

Providers == {"kubernetes", "nautobot", "netbox"}
Policies  == [expected : {"none", "operation"}, unverifiable : {"fail", "record"}]

Verdict(interval, completion) == [interval |-> interval, completion |-> completion]
Drifted      == Verdict("drifted", "fresh")
Unverifiable == Verdict("unverifiable", "fresh")

\* interval_verifiable: what _require_verifiable_interval asks of a provider.
Verifiable(provider, policy) == provider = "kubernetes" /\ policy.expected = "none"

\* AuthorityResolver.begin, with an authority that is ready.
MayBegin(provider, policy) == policy.unverifiable = "fail" => Verifiable(provider, policy)

\* A plausible slip: only the identity of the object is compared.
KubernetesInterval_ByIdentity(policy, before, after) ==
    IF policy.expected # "none" THEN Unverifiable
    ELSE IF before.uid # after.uid THEN Drifted
    ELSE Verdict("stable", "fresh")

KubernetesInterval(policy, before, after) ==
    IF policy.expected # "none" THEN Unverifiable
    ELSE IF before.uid # after.uid THEN Drifted
    ELSE IF after.version < before.version THEN Verdict("unverifiable", "stale")
    ELSE IF before.version # after.version THEN Drifted
    ELSE Verdict("stable", "fresh")

NautobotInterval(policy, before, after) ==
    IF policy.expected = "none" /\ before.content # after.content
    THEN Drifted ELSE Unverifiable

\* AuthorityResolver.complete, when both observations could be made.
Interval(provider, policy, before, after) ==
    IF provider = "kubernetes" THEN KubernetesInterval(policy, before, after)
    ELSE IF provider = "nautobot" THEN NautobotInterval(policy, before, after)
    ELSE Unverifiable

Decision(verdict, policy) ==
    IF verdict.interval = "drifted" \/ verdict.completion = "stale" THEN "deny"
    ELSE IF "unverifiable" \in {verdict.interval, verdict.completion}
    THEN IF policy.unverifiable = "record" THEN "record" ELSE "deny"
    ELSE "allow"

\* Or the closing observation cannot be made, is not ready or is malformed, or
\* the clock has gone back behind the completion floor.
Decisions(provider, policy, before, after) ==
    {Decision(Interval(provider, policy, before, after), policy), "deny"}
=============================================================================
