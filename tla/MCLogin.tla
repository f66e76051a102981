------------------------------- MODULE MCLogin -------------------------------
(* Instances of Throttle and Provider for TLC.  The budgets guard the password *)
(* login and the provider serves the OIDC one, so no run of the program has    *)
(* both: each is explored with the other at rest.  In the throttle the owner   *)
(* has an address of its own, and two browsers share a second.                 *)
EXTENDS Throttle, Provider, TLC

CONSTANTS owner, guest, other, home, away

MCAddress == owner :> home @@ guest :> away @@ other :> away

VARIABLE moving

Start ==
    /\ ThrottleInit /\ ProviderInit
    /\ moving \in {"throttle", "provider"}
    /\ moving = "provider" => known = {} /\ ~claimed

ThrottleMoves == moving = "throttle" /\ ThrottleNext /\ UNCHANGED <<moving, providerVars>>

ProviderMoves == moving = "provider" /\ ProviderNext /\ UNCHANGED <<moving, throttleVars>>

EitherMoves == ThrottleMoves \/ ProviderMoves

EitherSpec == Start /\ [][EitherMoves]_<<moving, throttleVars, providerVars>>

\* Time passes and the process runs on; the provider's answer comes, or its request
\* times out, and its lock's waiters are served in turn.
EitherFairSpec ==
    /\ EitherSpec
    /\ WF_throttleVars(moving = "throttle" /\ Tick)
    /\ \A c \in Owners :
          /\ WF_throttleVars(moving = "throttle" /\ PasswordLogin(c))
          /\ WF_throttleVars(moving = "throttle" /\ (VerifyFails(c) \/ VerifySucceeds(c)))
    /\ \A c \in Calls :
          /\ WF_providerVars(moving = "provider" /\ Answered(c))
          /\ SF_providerVars(moving = "provider" /\ Granted(c))

=============================================================================
