------------------------------ MODULE MCRecords ------------------------------
(* Small instances of four components that share no state.  A behaviour    *)
(* exercises one of them, the part; the others stay as they began.         *)
EXTENDS Lake, Inventory, Certification, Portal, TLC
CONSTANTS c1, c2, s1, s2, s3, t1, t2

VARIABLE part

Callers == {c1, c2}
Symmetry == Permutations(Callers)

\* Record 2 does not fit its dataset; one policy expires record 1, one archives it.
Days      == [r \in {1, 2} |-> r]
Retention == {[ttl |-> 1, archive |-> 0], [ttl |-> 0, archive |-> 1]}

Trust == (s1 :> 2) @@ (s2 :> 1) @@ (s3 :> 2)
Filed(a, s, t, type, class, owner, state) ==
  [asset |-> a, source |-> s, at |-> t, state |-> state,
   fields |-> [asset_type |-> type, classification |-> class, owner |-> owner]]
\* s1 changes its mind on asset 1, s2 knows less, s3 ties with s1.
Feed == {
  Filed(1, s1, 1, "vm", "x", Nothing, "active"), Filed(1, s1, 2, "host", "x", Nothing, "active"),
  Filed(1, s2, 2, "host", "y", "ann", "active"), Filed(1, s3, 1, "host", Nothing, "bob", "active"),
  Filed(2, s1, 1, "vm", Nothing, Nothing, "decommissioned"),
  Filed(3, s1, 1, "vm", Nothing, Nothing, "active") }

Given == << [tenant |-> t1, email |-> Anyone, expires |-> 0], [tenant |-> t2, email |-> "b", expires |-> 0] >>
Scans == { << [subject |-> "host", check |-> "port"] >> }

Parts == {"lake", "inventory", "certification", "portal"}

Init ==
  /\ part \in Parts
  /\ LakeInit /\ InventoryInit /\ CertificationInit /\ PortalInit
  /\ part # "lake" => Stored = {}
  /\ part # "portal" => accounts = <<>>

Next ==
  \/ /\ part = "lake" /\ LakeNext
     /\ UNCHANGED <<part, inventoryVars, certificationVars, portalVars>>
  \/ /\ part = "inventory" /\ InventoryNext
     /\ UNCHANGED <<part, lakeVars, certificationVars, portalVars>>
  \/ /\ part = "certification" /\ CertificationNext
     /\ UNCHANGED <<part, lakeVars, inventoryVars, portalVars>>
  \/ /\ part = "portal" /\ PortalNext
     /\ UNCHANGED <<part, lakeVars, inventoryVars, certificationVars>>

Spec == Init /\ [][Next]_<<part, lakeVars, inventoryVars, certificationVars, portalVars>>
=============================================================================
