--------------------------- MODULE MCReplacement ---------------------------
(* Constants of Replacement for TLC: three generations of one resource, of *)
(* every kind the providers are, with two immutable settings.              *)
EXTENDS Replacement

CONSTANTS g1, g2, g3, a, b

MCGenerated == <<g1, g2, g3>>
MCName == {g1, a, b, NoName}

\* RDS instance, ACK cluster and node pool.
Guarded == [policy |-> "guarded", compares |-> {},
            renamesInPlace |-> FALSE, names |-> {g1, a, NoName}]
\* EIP, NAT gateway and disk.
RenamedInPlace == [policy |-> "guarded", compares |-> {},
                   renamesInPlace |-> TRUE, names |-> {a, b, NoName}]
\* ECS instance, attachments, associations.
DeletedFirst == [policy |-> "deleteFirst", compares |-> {},
                 renamesInPlace |-> FALSE, names |-> {a, b, NoName}]
\* Key pair: a pair of that name with another key is an error.
KeyPair == [policy |-> "sameNameFirst", compares |-> Part,
            renamesInPlace |-> FALSE, names |-> {g1, a, NoName}]
\* Network (cidrBlock) and vSwitch (vpcId, cidrBlock, zoneId).  A Tair
\* instance compares nothing, so `Verify` holds it back less: whatever this
\* kind does it does.
Bare == [policy |-> "unguarded", compares |-> {"address"},
         renamesInPlace |-> FALSE, names |-> {a, b, NoName}]

GuardedKinds == {Guarded, RenamedInPlace, DeletedFirst, KeyPair}
BareOnly == {Bare}
EipOnly == {RenamedInPlace}
=============================================================================
