---------------------------- MODULE MCVDCManager ----------------------------
EXTENDS VDCManager

CONSTANTS o1, o2, o3, a1, b1, b2, b3, c1, e1, m1, m2, n1

Blueprint(owners, apps) == [kind |-> "blueprint", owners |-> owners, apps |-> apps]
OfVdc(kind, infra)      == [kind |-> kind, vdc |-> 0, infra |-> infra]

AllJobs ==
     (b1 :> Blueprint({o1}, {a1})) @@ (b2 :> Blueprint({o2}, {}))
  @@ (b3 :> Blueprint({o3}, {}))
  @@ (c1 :> OfVdc("copy", o1))
  @@ (e1 :> (OfVdc("datasource", o1) @@ [id |-> "ds"]))
  @@ (m1 :> (OfVdc("dal", a1) @@ [dal |-> "near", ip |-> "moved"]))
  @@ (m2 :> (OfVdc("dal", a1) @@ [dal |-> "far", ip |-> "moved"]))
  @@ (n1 :> OfVdc("newdal", o1))

MCJob == [r \in Requests |-> AllJobs[r]]

(* 30003 and 30006, in the scale of the range.                              *)
MCVdmPorts == <<2, 4>>

(* The blueprint gives no address for the DAL that is far away.              *)
MCWithAddress == [i \in Infras |-> {"near"}]
=============================================================================
