---------------------------- MODULE Marketplace ----------------------------
(***************************************************************************)
(* What the marketplace publisher promises a developer who installs from    *)
(* the git target, with no worker, channel, clone or retry in sight: the    *)
(* target changes only to a version the catalog had after the version       *)
(* published last, so the publisher never takes a reader back in time.      *)
(***************************************************************************)
EXTENDS Integers

CONSTANTS
    MaxVersion,  \* catalog versions are 0..MaxVersion
    Empty,       \* a target nobody has pushed to
    Foreign      \* a commit that is not the publisher's

VARIABLES
    catalog,  \* version of the approved org-visible artifacts
    target,   \* what the tip of the target's branch holds
    floor     \* the last version the publisher put there, -1 before the first

abstractVars == <<catalog, target, floor>>

AInit ==
    /\ catalog = 0
    /\ target \in {Empty, Foreign}
    /\ floor = -1

AEdit ==
    /\ catalog < MaxVersion
    /\ catalog' = catalog + 1
    /\ UNCHANGED <<target, floor>>

APublish ==
    /\ \E v \in floor..catalog :
          /\ v >= 0
          /\ target' = v
          /\ floor' = v
    /\ UNCHANGED catalog

AForeignPush ==
    /\ target' = Foreign
    /\ UNCHANGED <<catalog, floor>>

ANext == AEdit \/ APublish \/ AForeignPush

ASpec == AInit /\ [][ANext]_abstractVars
=============================================================================
