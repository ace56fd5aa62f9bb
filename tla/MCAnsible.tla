----------------------------- MODULE MCAnsible -----------------------------
EXTENDS Ansible, TLC

CONSTANTS n1, n2, v1, k1, k2, g1, z1

AllWanted ==
     (v1 :> <<"hosts", "kubernetes", "helm", "fluentd", "gluster-kubernetes">>)
  @@ (k1 :> <<"kubernetes">>) @@ (k2 :> <<"kubernetes">>)
  @@ (g1 :> <<"private_registries">>)
  @@ (z1 :> <<"k3s">>)

MCWanted == [r \in Requests |-> AllWanted[r]]
=============================================================================
