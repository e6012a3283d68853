----------------------------- MODULE MCServices -----------------------------
(***************************************************************************)
(* Three services that share no state, checked in one run: a behaviour is  *)
(* of the one that part names, and the variables of the others stay at     *)
(* their initial values.                                                   *)
(***************************************************************************)
EXTENDS AccountRuntimes, CrossChainFunding, DeltaNeutralProtection

VARIABLE part

\* Two transfers that leave from the same network, so that the second waits.
SameNetwork == <<"a", "a">>

MCvars == <<part, fundingVars, vars, protectionVars>>

MCInit ==
    /\ part \in {"funding", "runtimes", "protection"}
    /\ FundingInit /\ Init /\ ProtectionInit
    /\ part # "protection" => protection.lp = CHOOSE q \in Sizes : TRUE

MCNext ==
    /\ UNCHANGED part
    /\ \/ /\ part = "funding" /\ FundingNext
          /\ UNCHANGED <<vars, protectionVars>>
       \/ /\ part = "runtimes" /\ Next
          /\ UNCHANGED <<fundingVars, protectionVars>>
       \/ /\ part = "protection" /\ ProtectionNext
          /\ UNCHANGED <<fundingVars, vars>>

MCSpec == MCInit /\ [][MCNext]_MCvars
=============================================================================
