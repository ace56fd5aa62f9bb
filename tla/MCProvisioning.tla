--------------------------- MODULE MCProvisioning ---------------------------
EXTENDS Provisioning

CONSTANTS i1, s1, s2, s3, d1, d2, t1, k1, x1, x2, g1

Service(name) == [kind |-> "services", name |-> name]
Datasource    == [kind |-> "mysql", name |-> "mysql"]
Registries    == [kind |-> "registries", name |-> ""]
Install       == [kind |-> "kubernetes", name |-> ""]
Deletion      == [kind |-> "delete", name |-> ""]

Traefik       == [kind |-> "traefik", name |-> "traefik"]
Rook          == [kind |-> "rook", name |-> "rook"]

AllJobs == (i1 :> Install) @@ (g1 :> Registries)
        @@ (s1 :> Service("a")) @@ (s2 :> Service("b")) @@ (s3 :> Service("a"))
        @@ (d1 :> Datasource) @@ (d2 :> Datasource)
        @@ (t1 :> Traefik) @@ (k1 :> Rook)
        @@ (x1 :> Deletion) @@ (x2 :> Deletion)

MCJob == [r \in Requests |-> AllJobs[r]]
=============================================================================
