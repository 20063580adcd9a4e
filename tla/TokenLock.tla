------------------------------ MODULE TokenLock ------------------------------
(***************************************************************************)
(* Initialisation and the custody of the guardians' locked tokens          *)
(* (lib.rs).  The token contract is external: a transfer traps, and with   *)
(* it the whole invocation, on a negative amount or an uncovered balance.  *)
(***************************************************************************)
EXTENDS GuardianRegistry

(* Callable once; it also clears a pause set before.                       *)
Initialize(threshold) ==
  /\ ~initialized
  /\ initialized' = TRUE
  /\ lock_threshold' = threshold
  /\ paused' = FALSE
  /\ UNCHANGED <<failure_count, locked_balance, wallet, held, guardianVars,
                 taskVars, voteVars, vaultVars, streamVars, now>>

(* What token.transfer demands of its arguments.                           *)
Transferable(balance, amount) == 0 <= amount /\ amount <= balance

LockTokensError(g, amount) ==
  IF ~initialized THEN "NotInitialized"
  ELSE IF ~Transferable(wallet[g], amount) THEN "TokenTrap"
  ELSE Ok

(* Neither membership nor the pause flag is consulted.                     *)
LockTokens(g, amount) ==
  /\ LockTokensError(g, amount) = Ok
  /\ wallet' = [wallet EXCEPT ![g] = @ - amount]
  /\ held' = held + amount
  /\ locked_balance' = [locked_balance EXCEPT ![g] = @ + amount]
  /\ UNCHANGED <<initialized, lock_threshold, breakerVars, guardianVars,
                 taskVars, voteVars, vaultVars, streamVars, now>>

(* Mutant: pays the balance out and forgets to clear it.                   *)
RefundKeepsBalance(g) ==
  /\ wallet' = [wallet EXCEPT ![g] = @ + locked_balance[g]]
  /\ held' = held - locked_balance[g]
  /\ locked_balance' = locked_balance

(* The whole locked balance goes back.  With nothing locked the code skips *)
(* the transfer and the write, which is what subtracting zero does here.   *)
Refund(g) ==
  /\ wallet' = [wallet EXCEPT ![g] = @ + locked_balance[g]]
  /\ held' = held - locked_balance[g]
  /\ locked_balance' = [locked_balance EXCEPT ![g] = 0]

(* Not subject to the pause flag, and neither is unlock_tokens below.      *)
ResignGuardianError(g) ==
  IF ~initialized THEN "NotInitialized"
  ELSE IF ~is_guardian(g) THEN "NotGuardian"
  ELSE IF ~Transferable(held, locked_balance[g]) THEN "TokenTrap"
  ELSE Ok

ResignGuardian(g) ==
  /\ ResignGuardianError(g) = Ok
  /\ guardian' = [guardian EXCEPT ![g] = "resigned"]
  /\ Refund(g)
  /\ UNCHANGED <<initialized, lock_threshold, all_guardians, reputation,
                 breakerVars, taskVars, voteVars, vaultVars, streamVars, now>>

(* Mutant: any membership entry blocks, a resigned guardian's too.         *)
UnlockTokensErrorOnEntry(g) ==
  IF ~initialized THEN "NotInitialized"
  ELSE IF HasGuardianEntry(g) THEN "StillGuardian"
  ELSE IF ~Transferable(held, locked_balance[g]) THEN "TokenTrap"
  ELSE Ok

(* Mutant: no membership test.                                             *)
UnlockTokensErrorAnyone(g) ==
  IF ~initialized THEN "NotInitialized"
  ELSE IF ~Transferable(held, locked_balance[g]) THEN "TokenTrap"
  ELSE Ok

UnlockTokensError(g) ==
  IF ~initialized THEN "NotInitialized"
  ELSE IF is_guardian(g) THEN "StillGuardian"
  ELSE IF ~Transferable(held, locked_balance[g]) THEN "TokenTrap"
  ELSE Ok

UnlockTokens(g) ==
  /\ UnlockTokensError(g) = Ok
  /\ Refund(g)
  /\ UNCHANGED <<initialized, lock_threshold, breakerVars, guardianVars,
                 taskVars, voteVars, vaultVars, streamVars, now>>
=============================================================================
