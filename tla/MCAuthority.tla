---------------------------- MODULE MCAuthority ----------------------------
(* Instances of Authority for TLC. *)
EXTENDS Authority

SomePerms == {{ISOLATE, RESUME}, ALL_ACTS}

SomeShapes == {<<{"low"}, FALSE>>}

IrqShapes == {<<{}, TRUE>>, <<{"low"}, FALSE>>}

\* The audit entries of the last step decide nothing.
WithoutTrail ==
  <<exec, dom, taskVars, cfg, pending, ledger, irqSet, job, streak,
    revoked>>

SomePolicies == {<<1, 60>>, <<2, 1>>, <<2, 2>>, <<9, 0>>}

\* The plan of an adversarial model (kill, then isolate), one that mixes valid
\* and invalid items, and one that kills its own task half way.
SomePlans ==
  {<< <<KILL, 1, 0>>, <<ISOLATE, 1, 0>> >>,
   << <<RESUME, 1, 0>>, <<9, 0, 0>>, <<LAUNCH, 0, 0>> >>,
   << <<KILL, 0, 0>>, <<SET_CFG, 2, 0>>, <<ACK, 0, 0>> >>}

SomeTexts == {<< <<2, 0>>, <<1, 200>> >>}

\* The thresholds and the ledger.
TauPolicies == {<<7, 40>>, <<7, 80>>, <<8, 30>>, <<8, 60>>}

TauPlans == {<< <<SET_CFG, 7, 50>> >>}

TauTexts == {<< <<7, 60>>, <<8, 50>> >>}
=============================================================================
