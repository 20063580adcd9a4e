----------------------------- MODULE InstanceTtl -----------------------------
(***************************************************************************)
(* The life time of the contract's instance storage.  All of its state is  *)
(* in one instance entry; once the ledger passes live_until the host has   *)
(* archived that entry, and every invocation, getters included, fails      *)
(* until somebody restores it.  Only initialize and add_guardian extend    *)
(* it.  The clock counts ledgers here.  Archiving and restoring are the    *)
(* host's doing and external.                                              *)
(***************************************************************************)
EXTENDS VeroCore

CONSTANTS
  LEDGER_TTL,     \* window initialize and add_guardian ask for
  InitialTtls,    \* life times the network may give a new instance
  RestoredTtl     \* life time the network gives a restored one

ASSUME TtlAssumption ==
  /\ LEDGER_TTL \in Nat
  /\ InitialTtls \subseteq Nat
  /\ RestoredTtl \in Nat

VARIABLES
  live_until,     \* last ledger at which the instance entry is live
  extended_at     \* history: ledger of the last extend_ttl, 0 before it

ttlVars == <<live_until, extended_at>>

Live == now <= live_until

(* storage().instance().extend_ttl: nothing happens while the entry still  *)
(* lives for threshold ledgers.                                            *)
extend_ttl(threshold, extend_to) ==
  IF live_until - now < threshold THEN now + extend_to ELSE live_until

(* Mutant: the threshold left at one ledger.                               *)
ExtendedLifeLate == extend_ttl(1, LEDGER_TTL)

(* What both callers of extend_ttl ask for.                                *)
ExtendedLife == extend_ttl(LEDGER_TTL, LEDGER_TTL)

(* The entry points that extend.                                           *)
ExtendingInvocation ==
  /\ Live
  /\ \/ \E th \in LockThresholds : Initialize(th)
     \/ \E g \in Address : AddGuardian(g)
  /\ live_until' = ExtendedLife
  /\ extended_at' = now

(* All the others, which leave the life time as it is.                     *)
PlainInvocation ==
  /\ Live
  /\ \/ BreakerStep
     \/ TaskStep
     \/ VotingStep
     \/ StreamStep
     \/ \E g \in Address :
          \/ RemoveGuardian(g)
          \/ \E s \in Scores : SetReputation(g, s)
          \/ \E amount \in Amounts : LockTokens(g, amount)
          \/ Withdraw(g)
  /\ UNCHANGED ttlVars

CloseLedger == Tick /\ UNCHANGED ttlVars

(* Anybody may pay for it.                                                 *)
Restore ==
  /\ ~Live
  /\ live_until' = now + RestoredTtl
  /\ UNCHANGED <<vars, extended_at>>

TtlInit ==
  /\ Init
  /\ live_until \in {now + ttl : ttl \in InitialTtls}
  /\ extended_at = 0

TtlNext ==
  ExtendingInvocation \/ PlainInvocation \/ CloseLedger \/ Restore

(* A holder keeps asking for its tokens, also across an expiry, and        *)
(* somebody, in the end the holder, pays for the restore.                  *)
TtlFairness ==
  /\ WF_<<vars, ttlVars>>(Restore)
  /\ \A g \in Address :
       SF_<<vars, ttlVars>>(Live /\ Withdraw(g) /\ UNCHANGED ttlVars)

TtlSpec == TtlInit /\ [][TtlNext]_<<vars, ttlVars>> /\ TtlFairness

-----------------------------------------------------------------------------
(* The contract answers for LEDGER_TTL ledgers after every initialize and  *)
(* every add_guardian, a re-admission and one made while much or little of *)
(* the life time was left included.                                        *)
WindowHonoured == extended_at > 0 /\ now <= extended_at + LEDGER_TTL => Live
=============================================================================
