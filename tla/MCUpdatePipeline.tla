-------------------------- MODULE MCUpdatePipeline --------------------------
(* Instances of UpdatePipeline for TLC. *)
EXTENDS UpdatePipeline

CONSTANTS i1, i2, i3   \* the images

\* One image without news, one with a critical fix, one with a new kernel and an
\* advisory of unknown severity.
TheUpdate ==
  [i \in {i1, i2, i3} |->
     CASE i = i1 -> [packages |-> {}, severities |-> {}]
       [] i = i2 -> [packages |-> {}, severities |-> {1, 4}]
       [] OTHER  -> [packages |-> {"kernel"}, severities |-> {0}]]

\* Every backend with every fault, and one without power cuts.
FaultyMachines ==
  [backend : {"composefs", "ostree", "layered"}, faults : {{"network", "power"}}]
    \cup [backend : {"composefs"}, faults : {{"network"}}]

\* A machine of each way to be notified, without faults.
SoundMachines == [backend : {"composefs", "ostree"}, faults : {{}}]

ComposefsMachine == [backend : {"composefs"}, faults : {{}}]
=============================================================================
